---- MODULE Spec2Model ----
(***************************************************************************)
(* Email extraction and categorization engine: EmailExtractor              *)
(* (src/src/extractor.py), EmailCategorizer (src/src/categorizer.py) and   *)
(* EmailEngine (src/src/engine.py).                                        *)
(*                                                                         *)
(* A Python str is a sequence of one-character strings, so that scanning,  *)
(* splitting, lower-casing and suffix tests are computed character by      *)
(* character.  A Python dict is a sequence of [label, emails] entries with *)
(* pairwise distinct labels, in insertion order.                           *)
(***************************************************************************)
EXTENDS Integers, Sequences, FiniteSets, TLC

VARIABLES case_sensitive, emails, categorized, cache, ret,
          cIn, cOut, xText, xOut, xPaths, xLog, fIn, fOut,
        args, cli

vars == << case_sensitive, emails, categorized, cache, ret,
           cIn, cOut, xText, xOut, xPaths, xLog, fIn, fOut,
        args, cli >>

(***************************************************************************)
(* Characters and strings                                                  *)
(***************************************************************************)
UpperSeq == << "A","B","C","D","E","F","G","H","I","J","K","L","M",
               "N","O","P","Q","R","S","T","U","V","W","X","Y","Z" >>

LowerSeq == << "a","b","c","d","e","f","g","h","i","j","k","l","m",
               "n","o","p","q","r","s","t","u","v","w","x","y","z" >>

Upper == { UpperSeq[i] : i \in 1..26 }

Lower == { LowerSeq[i] : i \in 1..26 }

Digit == { "0","1","2","3","4","5","6","7","8","9" }

\* \w of the re module, restricted to ASCII text
WordCh == Upper \cup Lower \cup Digit \cup { "_" }

\* [A-Za-z0-9._%+-]
LocalCh == Upper \cup Lower \cup Digit \cup { ".", "_", "%", "+", "-" }

\* [A-Za-z0-9.-]
DomCh == Upper \cup Lower \cup Digit \cup { ".", "-" }

\* [A-Z|a-z]: the class of the pattern's last part contains the bar
TldCh == Upper \cup Lower \cup { "|" }

MaxOf(S) == CHOOSE m \in S : \A k \in S : k <= m

MinOf(S) == CHOOSE m \in S : \A k \in S : m <= k

\* str.lower() on one character
LowerCh(c) == IF c \in Upper
              THEN LowerSeq[CHOOSE i \in 1..26 : UpperSeq[i] = c]
              ELSE c

\* str.lower()
StrLower(s) == [ i \in 1..Len(s) |-> LowerCh(s[i]) ]

\* s.endswith(suf)
EndsWith(s, suf) == /\ Len(suf) <= Len(s)
                    /\ SubSeq(s, Len(s) - Len(suf) + 1, Len(s)) = suf

\* s.startswith(pre)
StartsWith(s, pre) == /\ Len(pre) <= Len(s)
                      /\ SubSeq(s, 1, Len(pre)) = pre

\* sub in s
Contains(s, sub) == \E i \in 1..(Len(s) - Len(sub) + 1) :
                        SubSeq(s, i, i + Len(sub) - 1) = sub

\* set(list)
SetOf(s) == { s[i] : i \in 1..Len(s) }

\* number of occurrences of x in list s
Count(s, x) == Cardinality({ i \in 1..Len(s) : s[i] = x })

(***************************************************************************)
(* EmailExtractor.EMAIL_PATTERN                                            *)
(*   \b[A-Za-z0-9._%+-]+@[A-Za-z0-9.-]+\.[A-Z|a-z]{2,}\b                   *)
(***************************************************************************)
\* \b between t[k-1] and t[k]
IsWordBoundary(t, k) == (k > 1 /\ t[k-1] \in WordCh)
                            # (k <= Len(t) /\ t[k] \in WordCh)

\* last index of the longest run of characters of S that starts at i
\* (i-1 when the run is empty)
RunEnd(t, i, S) ==
    LET stops == { j \in i..Len(t) : t[j] \notin S }
    IN  IF stops = {} THEN Len(t) ELSE MinOf(stops) - 1

\* the last part after a domain that ends at b: greedy, the longest run of
\* at least two characters that ends on a word boundary; 0 when none
TldEnd(t, b) ==
    LET tmax == RunEnd(t, b + 2, TldCh)
        ok   == { e \in (b + 3)..tmax : IsWordBoundary(t, e + 1) }
    IN  IF ok = {} THEN 0 ELSE MaxOf(ok)

\* end index of the match of EMAIL_PATTERN that starts at i, 0 when none.
\* The local part is the whole run before the "@" ("@" is not in its class);
\* the domain is greedy and gives characters back until a "." and a last
\* part follow.
MatchEnd(t, i) ==
    LET a == RunEnd(t, i, LocalCh)
    IN  IF ~ IsWordBoundary(t, i) \/ a < i \/ a + 1 > Len(t) THEN 0
        ELSE IF t[a + 1] # "@" THEN 0
        ELSE LET dmax == RunEnd(t, a + 2, DomCh)
                 B    == { b \in (a + 2)..dmax :
                             /\ b + 1 <= Len(t)
                             /\ t[b + 1] = "."
                             /\ TldEnd(t, b) # 0 }
             IN  IF B = {} THEN 0 ELSE TldEnd(t, MaxOf(B))

\* EMAIL_PATTERN.findall(text): leftmost non-overlapping matches; Scan[pos]
\* is the list of the matches that start at pos or later
FindAllFrom(t, start) ==
    LET Scan[pos \in 1..(Len(t) + 1)] ==
            IF pos > Len(t) THEN << >>
            ELSE IF MatchEnd(t, pos) # 0
                 THEN << SubSeq(t, pos, MatchEnd(t, pos)) >>
                      \o Scan[MatchEnd(t, pos) + 1]
                 ELSE Scan[pos + 1]
    IN  Scan[start]

\* 'Contact sales@company.com or support@company.com or info@gmail.com'
T_contact ==
    <<"C","o","n","t","a","c","t"," ","s","a","l","e","s","@","c","o","m","p","a","n","y",".","c","o","m"," ","o","r"," ","s","u","p","p","o","r","t","@","c","o","m","p","a","n","y",".","c","o","m"," ","o","r"," ","i","n","f","o","@","g","m","a","i","l",".","c","o","m">>

\* 'no address here'
T_none == <<"n","o"," ","a","d","d","r","e","s","s"," ","h","e","r","e">>

\* 'info@gmail.com student@school.ac.uk'
T_notes ==
    <<"i","n","f","o","@","g","m","a","i","l",".","c","o","m"," ","s","t","u","d","e","n","t","@","s","c","h","o","o","l",".","a","c",".","u","k">>

\* 'student@school.ac.uk Admin1@Agency.GOV'
T_more ==
    <<"s","t","u","d","e","n","t","@","s","c","h","o","o","l",".","a","c",".","u","k"," ","A","d","m","i","n","1","@","A","g","e","n","c","y",".","G","O","V">>

\* 'deep@sub.org'
T_deep == <<"d","e","e","p","@","s","u","b",".","o","r","g">>

\* the texts of the engine's sources and files, scanned once
ScannedTexts == { T_contact, T_none, T_notes, T_more, T_deep }

ScanOf == [ t \in ScannedTexts |-> FindAllFrom(t, 1) ]

FindAll(t) == IF t \in ScannedTexts THEN ScanOf[t] ELSE FindAllFrom(t, 1)

(***************************************************************************)
(* EmailExtractor                                                          *)
(***************************************************************************)
\* mutant of Dedup: every match is kept
DedupKeepAll(list, k, seen, unique_emails) ==
    unique_emails \o SubSeq(list, k, Len(list))

\* the loop "for email in emails: if email not in seen: ..." from index k
RECURSIVE Dedup(_, _, _, _)
Dedup(list, k, seen, unique_emails) ==
    IF k > Len(list) THEN unique_emails
    ELSE IF list[k] \in seen
         THEN Dedup(list, k + 1, seen, unique_emails)
         ELSE Dedup(list, k + 1, seen \cup { list[k] },
                    Append(unique_emails, list[k]))

\* mutant of Normalized: the matches are kept as written in both modes
NormalizedKeepCase(text, cs) == FindAll(text)

\* the matches after the case handling of extract_from_text
Normalized(text, cs) ==
    LET found == FindAll(text)
    IN  IF cs THEN found ELSE [ i \in 1..Len(found) |-> StrLower(found[i]) ]

\* mutant of UpdateAndReturn: the session cache holds the addresses of the
\* last call only
UpdateReplacing(unique_emails, extracted) ==
    [ emails |-> unique_emails, cache |-> SetOf(unique_emails) ]

\* self.extracted_emails.update(unique_emails); return unique_emails
UpdateAndReturn(unique_emails, extracted) ==
    [ emails |-> unique_emails,
      cache  |-> extracted \cup SetOf(unique_emails) ]

\* extract_from_text: the returned list and the session cache afterwards
extract_from_text(text, cs, extracted) ==
    IF text = << >>
    THEN [ emails |-> << >>, cache |-> extracted ]
    ELSE UpdateAndReturn(Dedup(Normalized(text, cs), 1, {}, << >>), extracted)

\* code points order the characters that occur in the model's strings
CharOrder == << " ", "%", "+", "-", ".",
                "0","1","2","3","4","5","6","7","8","9", "@" >>
             \o UpperSeq \o << "_" >> \o LowerSeq \o << "|" >>

Ord(c) == CHOOSE i \in 1..Len(CharOrder) : CharOrder[i] = c

\* a < b on str: the first differing character decides, a proper prefix
\* is smaller
StrLess(a, b) ==
    \E i \in 1..(Len(b)) :
        /\ \A j \in 1..(i - 1) : j <= Len(a) /\ a[j] = b[j]
        /\ \/ i > Len(a)
           \/ Ord(a[i]) < Ord(b[i])

\* sorted(list(S))
RECURSIVE Sorted(_)
Sorted(S) ==
    IF S = {} THEN << >>
    ELSE LET m == CHOOSE x \in S : \A y \in S \ { x } : StrLess(x, y)
         IN  << m >> \o Sorted(S \ { m })

\* get_all_extracted
get_all_extracted(extracted) == Sorted(extracted)

\* clear_cache
clear_cache(extracted) == {}

(***************************************************************************)
(* EmailCategorizer: class constants                                       *)
(***************************************************************************)
FREE_EMAIL_DOMAINS == {
    <<"g","m","a","i","l",".","c","o","m">>,
    <<"y","a","h","o","o",".","c","o","m">>,
    <<"h","o","t","m","a","i","l",".","c","o","m">>,
    <<"o","u","t","l","o","o","k",".","c","o","m">>,
    <<"a","o","l",".","c","o","m">>,
    <<"i","c","l","o","u","d",".","c","o","m">>,
    <<"m","a","i","l",".","c","o","m">>,
    <<"p","r","o","t","o","n","m","a","i","l",".","c","o","m">>,
    <<"y","a","n","d","e","x",".","c","o","m">>,
    <<"z","o","h","o",".","c","o","m">> }

BUSINESS_DOMAINS == {
    <<"c","o","m","p","a","n","y",".","c","o","m">>,
    <<"c","o","r","p",".","c","o","m">>,
    <<"e","n","t","e","r","p","r","i","s","e",".","c","o","m">>,
    <<"b","u","s","i","n","e","s","s",".","c","o","m">> }

EDUCATIONAL_DOMAINS == {
    <<"e","d","u">>,
    <<"a","c",".","u","k">>,
    <<"e","d","u",".","a","u">>,
    <<"e","d","u",".","c","n">>,
    <<"a","c",".","i","n">> }

\* the literals of the government test of categorize_by_type
GovSuffix == <<".","g","o","v">>

GovUk == <<"g","o","v",".","u","k">>

GovUkSuffix == <<".","g","o","v",".","u","k">>

\* category labels that the code writes as literals
L_free == <<"f","r","e","e">>

L_business == <<"b","u","s","i","n","e","s","s">>

L_educational == <<"e","d","u","c","a","t","i","o","n","a","l">>

L_government == <<"g","o","v","e","r","n","m","e","n","t">>

L_other == <<"o","t","h","e","r">>

L_uncategorized == <<"u","n","c","a","t","e","g","o","r","i","z","e","d">>

(***************************************************************************)
(* dict: a sequence of entries [label, emails] with distinct labels        *)
(***************************************************************************)
Keys(m) == [ i \in 1..Len(m) |-> m[i].label ]

HasKey(m, l) == \E i \in 1..Len(m) : m[i].label = l

\* m[l]
Get(m, l) == m[CHOOSE i \in 1..Len(m) : m[i].label = l].emails

\* mutant of MapAppend: the list of an existing key is replaced
MapAppendReplace(m, l, e) ==
    IF HasKey(m, l)
    THEN [ i \in 1..Len(m) |->
             IF m[i].label = l THEN [ label |-> l, emails |-> << e >> ] ELSE m[i] ]
    ELSE Append(m, [ label |-> l, emails |-> << e >> ])

\* defaultdict(list): m[l].append(e); a new key is inserted last
MapAppend(m, l, e) ==
    IF HasKey(m, l)
    THEN [ i \in 1..Len(m) |->
             IF m[i].label = l
             THEN [ label |-> l, emails |-> Append(m[i].emails, e) ]
             ELSE m[i] ]
    ELSE Append(m, [ label |-> l, emails |-> << e >> ])

\* s.split(c)
RECURSIVE Split(_, _)
Split(s, c) ==
    LET idx == { i \in 1..Len(s) : s[i] = c }
    IN  IF idx = {} THEN << s >>
        ELSE LET i == CHOOSE k \in idx : \A j \in idx : k <= j
             IN  << SubSeq(s, 1, i - 1) >> \o Split(SubSeq(s, i + 1, Len(s)), c)

\* mutant of extract_domain: the domain keeps its case
extract_domain_keep_case(email) ==
    LET parts == Split(email, "@")
    IN  IF Len(parts) < 2
        THEN [ isNone |-> TRUE, val |-> << >> ]
        ELSE [ isNone |-> FALSE, val |-> parts[2] ]

\* _extract_domain: email.split('@')[1].lower(), None on IndexError
extract_domain(email) ==
    LET parts == Split(email, "@")
    IN  IF Len(parts) < 2
        THEN [ isNone |-> TRUE, val |-> << >> ]
        ELSE [ isNone |-> FALSE, val |-> StrLower(parts[2]) ]

\* truth value of an Optional[str]: None and "" are false
Truthy(d) == ~ d.isNone /\ d.val # << >>

\* mutant of is_business_domain: three labels are asked for
is_business_domain_three_labels(domain) ==
    Len(Split(domain, ".")) >= 3 /\ domain \notin FREE_EMAIL_DOMAINS

\* _is_business_domain
is_business_domain(domain) ==
    Len(Split(domain, ".")) >= 2 /\ domain \notin FREE_EMAIL_DOMAINS

(***************************************************************************)
(* EmailCategorizer: strategies                                            *)
(***************************************************************************)
\* categorize_by_domain
RECURSIVE DomainLoop(_, _, _)
DomainLoop(list, k, categories) ==
    IF k > Len(list) THEN categories
    ELSE LET domain == extract_domain(list[k])
         IN  IF Truthy(domain)
             THEN DomainLoop(list, k + 1,
                             MapAppend(categories, domain.val, list[k]))
             ELSE DomainLoop(list, k + 1, categories)

categorize_by_domain(list) == DomainLoop(list, 1, << >>)

\* the tests of the if/elif chain of categorize_by_type
IsFreeDomain(domain) == domain \in FREE_EMAIL_DOMAINS

IsEducationalDomain(domain) ==
    \E edu_domain \in EDUCATIONAL_DOMAINS : EndsWith(domain, edu_domain)

IsGovernmentDomain(domain) ==
    \/ EndsWith(domain, GovSuffix)
    \/ domain = GovUk
    \/ EndsWith(domain, GovUkSuffix)

IsBusinessDomain(domain) ==
    domain \in BUSINESS_DOMAINS \/ is_business_domain(domain)

\* mutant of TypeCategory: the business test comes before the educational
\* and government tests
TypeCategoryBusinessFirst(email) ==
    LET domain == extract_domain(email)
    IN  IF ~ Truthy(domain) THEN L_other
        ELSE IF IsFreeDomain(domain.val) THEN L_free
        ELSE IF IsBusinessDomain(domain.val) THEN L_business
        ELSE IF IsEducationalDomain(domain.val) THEN L_educational
        ELSE IF IsGovernmentDomain(domain.val) THEN L_government
        ELSE L_other

\* mutant of TypeCategory: the business branch is missing
TypeCategoryNoBusiness(email) ==
    LET domain == extract_domain(email)
    IN  IF ~ Truthy(domain) THEN L_other
        ELSE IF IsFreeDomain(domain.val) THEN L_free
        ELSE IF IsEducationalDomain(domain.val) THEN L_educational
        ELSE IF IsGovernmentDomain(domain.val) THEN L_government
        ELSE L_other

\* the category that the body of the loop of categorize_by_type appends to
TypeCategory(email) ==
    LET domain == extract_domain(email)
    IN  IF ~ Truthy(domain) THEN L_other
        ELSE IF IsFreeDomain(domain.val) THEN L_free
        ELSE IF IsEducationalDomain(domain.val) THEN L_educational
        ELSE IF IsGovernmentDomain(domain.val) THEN L_government
        ELSE IF IsBusinessDomain(domain.val) THEN L_business
        ELSE L_other

\* the dict literal that categorize_by_type starts from
TypeCategories == << [ label |-> L_free,        emails |-> << >> ],
                     [ label |-> L_business,    emails |-> << >> ],
                     [ label |-> L_educational, emails |-> << >> ],
                     [ label |-> L_government,  emails |-> << >> ],
                     [ label |-> L_other,       emails |-> << >> ] >>

RECURSIVE TypeLoop(_, _, _)
TypeLoop(list, k, categories) ==
    IF k > Len(list) THEN categories
    ELSE TypeLoop(list, k + 1,
                  MapAppend(categories, TypeCategory(list[k]), list[k]))

categorize_by_type(list) == TypeLoop(list, 1, TypeCategories)

\* the inner loop of categorize_by_keywords: some keyword of the list,
\* lower-cased, is a substring of the lower-cased address
KeywordHit(email, keyword_list) ==
    \E j \in 1..Len(keyword_list) :
        Contains(StrLower(email), StrLower(keyword_list[j]))

\* mutant of KeywordCategory: the scan does not stop at the first matching
\* category, the last one wins
KeywordCategoryLast(email, keywords) ==
    LET hits == { i \in 1..Len(keywords) :
                    KeywordHit(email, keywords[i].keywords) }
    IN  IF hits = {} THEN L_uncategorized ELSE keywords[MaxOf(hits)].label

\* the category that the body of the loop of categorize_by_keywords appends to
KeywordCategory(email, keywords) ==
    LET hits == { i \in 1..Len(keywords) :
                    KeywordHit(email, keywords[i].keywords) }
    IN  IF hits = {} THEN L_uncategorized ELSE keywords[MinOf(hits)].label

RECURSIVE KeywordLoop(_, _, _, _)
KeywordLoop(list, keywords, k, categories) ==
    IF k > Len(list) THEN categories
    ELSE KeywordLoop(list, keywords, k + 1,
                     MapAppend(categories,
                               KeywordCategory(list[k], keywords), list[k]))

categorize_by_keywords(list, keywords) == KeywordLoop(list, keywords, 1, << >>)

\* The regular expressions that callers pass to categorize_by_pattern are
\* inputs; the model knows these four by their text.
PatNumeric == ".*\\d+.*@.*"

PatAdmin == "admin.*@.*"

PatSales == "sales"

PatInvalid == "("

\* re.compile(pattern) raises re.error
CompileFails(patterns) ==
    \E i \in 1..Len(patterns) : patterns[i].pattern = PatInvalid

\* mutant of PatternMatch: pattern.search(email), a match that may start
\* anywhere
PatternSearch(pattern, email) ==
    CASE pattern = PatNumeric ->
            \E p \in 1..Len(email) : \E q \in (p + 1)..Len(email) :
                email[p] \in Digit /\ email[q] = "@"
      [] pattern = PatAdmin ->
            \E p \in 1..Len(email) :
                /\ p + 4 <= Len(email)
                /\ SubSeq(email, p, p + 4) = <<"a","d","m","i","n">>
                /\ \E q \in (p + 5)..Len(email) : email[q] = "@"
      [] pattern = PatSales ->
            Contains(email, <<"s","a","l","e","s">>)
      [] OTHER -> FALSE

\* pattern.match(email): a match that starts at the first character and may
\* end anywhere
PatternMatch(pattern, email) ==
    CASE pattern = PatNumeric ->
            \E p \in 1..Len(email) : \E q \in (p + 1)..Len(email) :
                email[p] \in Digit /\ email[q] = "@"
      [] pattern = PatAdmin ->
            /\ StartsWith(email, <<"a","d","m","i","n">>)
            /\ \E q \in 6..Len(email) : email[q] = "@"
      [] pattern = PatSales ->
            StartsWith(email, <<"s","a","l","e","s">>)
      [] OTHER -> FALSE

\* the category that the body of the loop of categorize_by_pattern appends to
PatternCategory(email, patterns) ==
    LET hits == { i \in 1..Len(patterns) :
                    PatternMatch(patterns[i].pattern, email) }
    IN  IF hits = {} THEN L_uncategorized ELSE patterns[MinOf(hits)].label

RECURSIVE PatternLoop(_, _, _, _)
PatternLoop(list, patterns, k, categories) ==
    IF k > Len(list) THEN categories
    ELSE PatternLoop(list, patterns, k + 1,
                     MapAppend(categories,
                               PatternCategory(list[k], patterns), list[k]))

\* categorize_by_pattern, when every pattern compiles
categorize_by_pattern(list, patterns) == PatternLoop(list, patterns, 1, << >>)

\* The predicates that callers pass to categorize_by_custom_rule are inputs:
\* the two of tests/test_categorizer.py, one that always raises and one that
\* raises IndexError on an address without "@".
RuleEval(rule, email) ==
    CASE rule = "is_long"  -> IF Len(email) > 20 THEN "true" ELSE "false"
      [] rule = "is_short" -> IF Len(email) < 15 THEN "true" ELSE "false"
      [] rule = "raises"   -> "raise"
      [] rule = "has_domain" ->
            IF Len(Split(email, "@")) < 2 THEN "raise"
            ELSE IF Split(email, "@")[2] # << >> THEN "true" ELSE "false"
      [] OTHER -> "false"

RECURSIVE RuleScan(_, _, _)

\* mutant of OnRaise: a raising predicate ends the scan for the address
OnRaiseAbort(email, rules, i) == L_uncategorized

\* "except Exception: ... continue": go on with the next predicate
OnRaise(email, rules, i) == RuleScan(email, rules, i + 1)

\* the inner loop of categorize_by_custom_rule from the i-th predicate: the
\* category the address is appended to
RuleScan(email, rules, i) ==
    IF i > Len(rules) THEN L_uncategorized
    ELSE LET r == RuleEval(rules[i].rule, email)
         IN  IF r = "true" THEN rules[i].label
             ELSE IF r = "raise" THEN OnRaise(email, rules, i)
             ELSE RuleScan(email, rules, i + 1)

RECURSIVE CustomLoop(_, _, _, _)
CustomLoop(list, rules, k, categories) ==
    IF k > Len(list) THEN categories
    ELSE CustomLoop(list, rules, k + 1,
                    MapAppend(categories, RuleScan(list[k], rules, 1), list[k]))

categorize_by_custom_rule(list, rules) == CustomLoop(list, rules, 1, << >>)

\* mutant of get_statistics: the counts come in the reverse of the map's order
get_statistics_reversed(m) ==
    [ i \in 1..Len(m) |-> [ label |-> m[Len(m) + 1 - i].label,
                            count |-> Len(m[Len(m) + 1 - i].emails) ] ]

\* get_statistics
get_statistics(m) ==
    [ i \in 1..Len(m) |-> [ label |-> m[i].label, count |-> Len(m[i].emails) ] ]

\* list.extend over the entries of a dict, in order
RECURSIVE Flatten(_)
Flatten(m) == IF m = << >> THEN << >>
              ELSE m[1].emails \o Flatten(Tail(m))

\* mutant of filter_by_category: the kept lists come in the map's order
filter_by_category_map_order(m, categories) ==
    Flatten(SelectSeq(m, LAMBDA entry : entry.label \in SetOf(categories)))

\* filter_by_category
RECURSIVE filter_by_category(_, _)
filter_by_category(m, categories) ==
    IF categories = << >> THEN << >>
    ELSE (IF HasKey(m, categories[1]) THEN Get(m, categories[1]) ELSE << >>)
         \o filter_by_category(m, Tail(categories))

\* mutant of exclude_categories: a label is excluded only when it is the
\* first of the list
exclude_categories_first_only(m, categories) ==
    Flatten(SelectSeq(m, LAMBDA entry :
                categories = << >> \/ entry.label # categories[1]))

\* exclude_categories
exclude_categories(m, categories) ==
    Flatten(SelectSeq(m, LAMBDA entry : entry.label \notin SetOf(categories)))

(***************************************************************************)
(* Inputs of the categorizer                                               *)
(***************************************************************************)
A_info == <<"i","n","f","o","@","g","m","a","i","l",".","c","o","m">>

A_student == <<"s","t","u","d","e","n","t","@","s","c","h","o","o","l",".","a","c",".","u","k">>

A_sales == <<"s","a","l","e","s","@","c","o","m","p","a","n","y",".","c","o","m">>

A_support == <<"s","u","p","p","o","r","t","@","c","o","m","p","a","n","y",".","c","o","m">>

A_admin == <<"A","d","m","i","n","1","@","A","g","e","n","c","y",".","G","O","V">>

A_nodomain == <<"n","o","d","o","m","a","i","n">>

A_twoat == <<"a","@","b","@","c",".","e","d","u">>

A_empty == <<"u","s","e","r","@">>

A_long == <<"v","e","r","y","l","o","n","g","e","m","a","i","l","a","d","d","r","e","s","s","@","e","x","a","m","p","l","e",".","c","o","m">>

A_xedu == <<"x","@","m","a","i","l",".","x","e","d","u">>

A_sales_co == <<"s","a","l","e","s","@","c","o",".","c","o","m">>

A_support_co == <<"s","u","p","p","o","r","t","@","c","o",".","c","o","m">>

A_random_co == <<"r","a","n","d","o","m","@","c","o",".","c","o","m">>

\* the addresses that the input lists of the categorizer are built from
\* 'sales1@co.com': it matches the patterns 'sales' and '.*\d+.*@.*'
A_sales1 == <<"s","a","l","e","s","1","@","c","o",".","c","o","m">>

\* 'presales1@co.com': 'sales' occurs in it, but not at its start
A_presales1 == <<"p","r","e","s","a","l","e","s","1","@","c","o",".","c","o","m">>

CatPool == { A_info, A_student, A_sales, A_admin, A_nodomain, A_twoat,
             A_empty, A_long, A_xedu, A_sales1, A_presales1 }

\* longest enumerated input list
MaxEmails == 3

RECURSIVE ListsUpTo(_, _)
ListsUpTo(S, n) ==
    IF n = 0 THEN { << >> }
    ELSE ListsUpTo(S, n - 1)
         \cup { Append(l, x) : l \in ListsUpTo(S, n - 1), x \in S }

\* the list of the keyword example of tests/test_categorizer.py
KeywordExampleList == << A_sales_co, A_support_co, A_random_co >>

CatLists == ListsUpTo(CatPool, MaxEmails) \cup { KeywordExampleList }

L_sales == <<"s","a","l","e","s">>

L_support == <<"s","u","p","p","o","r","t">>

L_staff == <<"s","t","a","f","f">>

L_public == <<"p","u","b","l","i","c">>

L_numeric == <<"n","u","m","e","r","i","c">>

L_admin == <<"a","d","m","i","n">>

L_long == <<"l","o","n","g">>

L_short == <<"s","h","o","r","t">>

L_boom == <<"b","o","o","m">>

L_dom == <<"d","o","m">>

\* {'sales': ['sales'], 'support': ['support', 'help']}
KeywordsExample ==
    << [ label |-> L_sales,   keywords |-> << <<"s","a","l","e","s">> >> ],
       [ label |-> L_support, keywords |-> << <<"s","u","p","p","o","r","t">>,
                                              <<"h","e","l","p">> >> ] >>

\* {'staff': ['ADMIN', 'sales'], 'public': ['gov', 'school'],
\*  'uncategorized': ['gmail']}
KeywordsOverlap ==
    << [ label |-> L_staff,  keywords |-> << <<"A","D","M","I","N">>,
                                             <<"s","a","l","e","s">> >> ],
       [ label |-> L_public, keywords |-> << <<"g","o","v">>,
                                             <<"s","c","h","o","o","l">> >> ],
       [ label |-> L_uncategorized,
         keywords |-> << <<"g","m","a","i","l">> >> ] >>

\* {'public': [], 'sales': ['company', 'sales']}
KeywordsEmptyList ==
    << [ label |-> L_public, keywords |-> << >> ],
       [ label |-> L_sales,  keywords |-> << <<"c","o","m","p","a","n","y">>,
                                             <<"s","a","l","e","s">> >> ] >>

KeywordMaps == { KeywordsExample, KeywordsOverlap, KeywordsEmptyList }

PatternMaps == {
    << [ label |-> L_numeric, pattern |-> PatNumeric ],
       [ label |-> L_admin,   pattern |-> PatAdmin ] >>,
    << [ label |-> L_sales,   pattern |-> PatSales ],
       [ label |-> L_admin,   pattern |-> PatAdmin ],
       [ label |-> L_numeric, pattern |-> PatNumeric ] >>,
    << [ label |-> L_sales,   pattern |-> PatSales ],
       [ label |-> L_boom,    pattern |-> PatInvalid ] >> }

RuleMaps == {
    << [ label |-> L_long,  rule |-> "is_long" ],
       [ label |-> L_short, rule |-> "is_short" ] >>,
    << [ label |-> L_boom,  rule |-> "raises" ],
       [ label |-> L_short, rule |-> "is_short" ] >>,
    << [ label |-> L_dom,   rule |-> "has_domain" ],
       [ label |-> L_short, rule |-> "is_short" ] >>,
    << [ label |-> L_long,  rule |-> "is_long" ],
       [ label |-> L_boom,  rule |-> "raises" ] >> }

(***************************************************************************)
(* Specification of the categorizer: one strategy applied to a list        *)
(***************************************************************************)
NoCall == [ method |-> "none", status |-> "none", cfg |-> << >>, map |-> << >> ]

EngineIdle ==
    /\ case_sensitive = FALSE
    /\ emails = << >>
    /\ categorized = << >>
    /\ cache = {}
    /\ ret = [ op |-> "none" ]

ExtractorIdle ==
    /\ xText = << >>
    /\ xOut = [ op |-> "none" ]
    /\ xPaths = << >>
    /\ xLog = {}

\* no call of filter_by_category or exclude_categories was made
NoFilter == [ op |-> "none", list |-> << >> ]

FilterIdle ==
    /\ fIn = [ map |-> << >>, categories |-> << >> ]
    /\ fOut = NoFilter

\* the command line was not run
NoArgs == [ source_type |-> "none" ]

NoRun == [ exit |-> -1 ]

CliIdle ==
    /\ args = NoArgs
    /\ cli = NoRun

CatIdle ==
    /\ cIn = << >>
    /\ cOut = NoCall

InitCat ==
    /\ cIn \in CatLists
    /\ cOut = NoCall
    /\ EngineIdle
    /\ ExtractorIdle
    /\ FilterIdle
    /\ CliIdle

CatFrame == UNCHANGED << case_sensitive, emails, categorized, cache, ret,
                         cIn, xText, xOut, xPaths, xLog, fIn, fOut,
        args, cli >>

CatByDomain ==
    /\ cOut = NoCall
    /\ cOut' = [ method |-> "domain", status |-> "ok", cfg |-> << >>,
                 map |-> categorize_by_domain(cIn) ]
    /\ CatFrame

CatByType ==
    /\ cOut = NoCall
    /\ cOut' = [ method |-> "type", status |-> "ok", cfg |-> << >>,
                 map |-> categorize_by_type(cIn) ]
    /\ CatFrame

CatByKeywords ==
    /\ cOut = NoCall
    /\ \E keywords \in KeywordMaps :
          cOut' = [ method |-> "keywords", status |-> "ok", cfg |-> keywords,
                    map |-> categorize_by_keywords(cIn, keywords) ]
    /\ CatFrame

CatByPattern ==
    /\ cOut = NoCall
    /\ \E patterns \in PatternMaps :
          cOut' = IF CompileFails(patterns)
                  THEN [ method |-> "pattern", status |-> "re.error",
                         cfg |-> patterns, map |-> << >> ]
                  ELSE [ method |-> "pattern", status |-> "ok",
                         cfg |-> patterns,
                         map |-> categorize_by_pattern(cIn, patterns) ]
    /\ CatFrame

CatByCustomRule ==
    /\ cOut = NoCall
    /\ \E rules \in RuleMaps :
          cOut' = [ method |-> "custom", status |-> "ok", cfg |-> rules,
                    map |-> categorize_by_custom_rule(cIn, rules) ]
    /\ CatFrame

NextCat == \/ CatByDomain
           \/ CatByType
           \/ CatByKeywords
           \/ CatByPattern
           \/ CatByCustomRule

SpecCat == InitCat /\ [][NextCat]_vars

(***************************************************************************)
(* Properties of the categorizer                                           *)
(***************************************************************************)
\* the labels of the categories of map m whose list contains address e
LabelsOf(m, e) == { m[i].label : i \in { j \in 1..Len(m) : e \in SetOf(m[j].emails) } }

\* the number of copies of address e in all lists of map m
Copies(m, e) == Count(Flatten(m), e)

HasAt(e) == "@" \in SetOf(e)

\* the text after the first "@" of an address that has one
AfterFirstAt(e) ==
    LET i == CHOOSE k \in 1..Len(e) :
                 e[k] = "@" /\ \A j \in 1..(k - 1) : e[j] # "@"
    IN  SubSeq(e, i + 1, Len(e))

\* the text before the first "@" of s, all of s when it has none
BeforeAt(s) ==
    IF HasAt(s)
    THEN SubSeq(s, 1, (CHOOSE k \in 1..Len(s) :
                          s[k] = "@" /\ \A j \in 1..(k - 1) : s[j] # "@") - 1)
    ELSE s

\* C1: for the type, keyword, pattern and custom-rule strategies the returned
\* map places every input address in exactly one category: the category lists
\* together hold each address as often as the input does, and each list keeps
\* the input's relative order.
C1_Partition ==
    (cOut.status = "ok" /\ cOut.method \in { "type", "keywords", "pattern", "custom" })
    => /\ \A i, j \in 1..Len(cOut.map) :
              i # j => cOut.map[i].label # cOut.map[j].label
       /\ \A x \in SetOf(cIn) \cup SetOf(Flatten(cOut.map)) :
              /\ Copies(cOut.map, x) = Count(cIn, x)
              /\ Cardinality(LabelsOf(cOut.map, x)) = 1
       /\ \A i \in 1..Len(cOut.map) :
              cOut.map[i].emails =
                  SelectSeq(cIn, LAMBDA x : x \in SetOf(cOut.map[i].emails))

\* C1 witness: a custom-rule call on a list with a repeated address whose
\* result has two non-empty categories
C1_Witness ==
    /\ cOut.method = "custom" /\ cOut.status = "ok"
    /\ Len(cIn) = 3 /\ cIn[1] = cIn[3] /\ cIn[1] # cIn[2]
    /\ Cardinality({ i \in 1..Len(cOut.map) : cOut.map[i].emails # << >> }) = 2

\* the domain has one of the educational suffixes with its leading dot
HasDottedEduSuffix(domain) ==
    \E edu_domain \in EDUCATIONAL_DOMAINS : EndsWith(domain, << "." >> \o edu_domain)

\* C4: categorize_by_type assigns the first rule that applies in the order
\* free, educational, government, business, other; an educational or
\* government suffix on a multi-label domain never gives business and a
\* free-provider domain always gives free.
C4_TypePrecedence ==
    cOut.method = "type"
    => \A k \in 1..Len(cIn) :
          LET e == cIn[k]
              d == extract_domain(e)
              In(l) == LabelsOf(cOut.map, e) = { l }
          IN  Truthy(d) =>
                /\ IsFreeDomain(d.val) => In(L_free)
                /\ (~ IsFreeDomain(d.val) /\ IsEducationalDomain(d.val))
                       => In(L_educational)
                /\ (~ IsFreeDomain(d.val) /\ ~ IsEducationalDomain(d.val)
                       /\ IsGovernmentDomain(d.val)) => In(L_government)
                /\ (~ IsFreeDomain(d.val) /\ ~ IsEducationalDomain(d.val)
                       /\ ~ IsGovernmentDomain(d.val) /\ IsBusinessDomain(d.val))
                       => In(L_business)
                /\ (~ IsFreeDomain(d.val) /\ ~ IsEducationalDomain(d.val)
                       /\ ~ IsGovernmentDomain(d.val) /\ ~ IsBusinessDomain(d.val))
                       => In(L_other)
                /\ (HasDottedEduSuffix(d.val) \/ IsGovernmentDomain(d.val))
                       => ~ In(L_business)
                /\ (e = A_student) => In(L_educational)

\* C4 witness: student@school.ac.uk, whose domain is educational and has three
\* labels, was categorized by type together with a government address
C4_Witness ==
    /\ cOut.method = "type"
    /\ A_student \in SetOf(cIn) /\ A_admin \in SetOf(cIn)
    /\ is_business_domain(extract_domain(A_student).val)
    /\ A_student \in SetOf(Get(cOut.map, L_educational))
    /\ A_admin \in SetOf(Get(cOut.map, L_government))

\* the i-th category of a keyword mapping has a keyword that, lower-cased,
\* occurs in the lower-cased address
KeywordMatches(e, keywords, i) ==
    \E kw \in SetOf(keywords[i].keywords) :
        \E p \in 1..(Len(e) + 1) :
            /\ p + Len(kw) - 1 <= Len(e)
            /\ \A q \in 1..Len(kw) : LowerCh(e[p + q - 1]) = LowerCh(kw[q])

\* C6: categorize_by_keywords is first-match-wins: an address goes to the first
\* category of the mapping that has a matching keyword and to uncategorized
\* when none has; the example of the claim gives the stated map.
C6_KeywordFirstMatch ==
    cOut.method = "keywords"
    => /\ \A k \in 1..Len(cIn) :
            LET e == cIn[k]
                kws == cOut.cfg
                hits == { i \in 1..Len(kws) : KeywordMatches(e, kws, i) }
            IN  /\ hits = {} => LabelsOf(cOut.map, e) = { L_uncategorized }
                /\ hits # {} =>
                     \E i \in hits :
                        /\ \A j \in hits : i <= j
                        /\ LabelsOf(cOut.map, e) = { kws[i].label }
       /\ (cIn = KeywordExampleList /\ cOut.cfg = KeywordsExample)
            => cOut.map = << [ label |-> L_sales, emails |-> << A_sales_co >> ],
                             [ label |-> L_support, emails |-> << A_support_co >> ],
                             [ label |-> L_uncategorized,
                               emails |-> << A_random_co >> ] >>

\* C6 witness: an address that matches keywords of two categories was
\* categorized and is in the first of them
C6_Witness ==
    /\ cOut.method = "keywords" /\ cOut.cfg = KeywordsOverlap
    /\ A_admin \in SetOf(cIn)
    /\ KeywordMatches(A_admin, KeywordsOverlap, 1)
    /\ KeywordMatches(A_admin, KeywordsOverlap, 2)
    /\ A_admin \in SetOf(Get(cOut.map, L_staff))

\* C7: categorize_by_custom_rule assigns the category of the first predicate,
\* in mapping order, that returns true; a raising predicate does not fail the
\* call and the next predicate is evaluated; with no true predicate the
\* address goes to uncategorized.
C7_CustomRules ==
    cOut.method = "custom"
    => /\ cOut.status = "ok"
       /\ \A k \in 1..Len(cIn) :
            LET e == cIn[k]
                rules == cOut.cfg
                yes == { i \in 1..Len(rules) : RuleEval(rules[i].rule, e) = "true" }
            IN  /\ yes = {} => LabelsOf(cOut.map, e) = { L_uncategorized }
                /\ yes # {} =>
                     \E i \in yes :
                        /\ \A j \in yes : i <= j
                        /\ LabelsOf(cOut.map, e) = { rules[i].label }

\* C7 witness: the first predicate raised on an address and the second one
\* returned true and gave the category
C7_Witness ==
    /\ cOut.method = "custom" /\ cOut.status = "ok"
    /\ \E k \in 1..Len(cIn) :
          /\ Len(cOut.cfg) = 2
          /\ RuleEval(cOut.cfg[1].rule, cIn[k]) = "raise"
          /\ RuleEval(cOut.cfg[2].rule, cIn[k]) = "true"
          /\ cIn[k] \in SetOf(Get(cOut.map, cOut.cfg[2].label))

DomainPart(e) == BeforeAt(AfterFirstAt(e))

Frags == { <<"a","@","b",".","c","c"," ">>,
           <<"A","@","b",".","c","c"," ">>,
           <<"A","@","B",".","C","C"," ">>,
           <<"c","@","d",".","i","o"," ">>,
           <<"a","@","b",".","c","c">>,
           <<"z">>, <<".">>, <<"@">> }

\* largest number of pieces of an enumerated text
MaxFrags == 4

RECURSIVE Concats(_, _)
Concats(S, n) ==
    IF n = 0 THEN { << >> }
    ELSE Concats(S, n - 1)
         \cup { t \o f : t \in Concats(S, n - 1), f \in S }

ExtTexts == Concats(Frags, MaxFrags)

InitExt ==
    /\ xText \in ExtTexts
    /\ xOut = [ op |-> "none" ]
    /\ case_sensitive \in BOOLEAN
    /\ cache = {}
    /\ emails = << >>
    /\ categorized = << >>
    /\ ret = [ op |-> "none" ]
    /\ xPaths = << >>
    /\ xLog = {}
    /\ CatIdle
    /\ FilterIdle
    /\ CliIdle

ExtractFromText ==
    /\ xOut.op = "none"
    /\ LET r == extract_from_text(xText, case_sensitive, cache)
       IN  /\ xOut' = [ op |-> "extract_from_text", emails |-> r.emails ]
           /\ cache' = r.cache
    /\ UNCHANGED << case_sensitive, emails, categorized, ret, cIn, cOut, xText,
                    xPaths, xLog, fIn, fOut,
        args, cli >>

NextExt == ExtractFromText

SpecExt == InitExt /\ [][NextExt]_vars

\* index of the first occurrence of x in list s
FirstPos(s, x) == CHOOSE i \in 1..Len(s) : s[i] = x /\ \A j \in 1..(i - 1) : s[j] # x

\* C2: extract_from_text returns each distinct matched address exactly once,
\* in the order of the first occurrences in the text.
C2_DedupFirstSeen ==
    xOut.op = "extract_from_text"
    => LET matched == Normalized(xText, case_sensitive)
           out == xOut.emails
       IN  /\ \A i, j \in 1..Len(out) : i # j => out[i] # out[j]
           /\ SetOf(out) = SetOf(matched)
           /\ \A i, j \in 1..Len(out) :
                 i < j => FirstPos(matched, out[i]) < FirstPos(matched, out[j])

\* C2 witness: the text has three matches, the third repeats the first, and
\* two addresses were returned
C2_Witness ==
    /\ xOut.op = "extract_from_text"
    /\ LET matched == Normalized(xText, case_sensitive)
       IN  /\ Len(matched) = 3
           /\ matched[1] = matched[3] /\ matched[1] # matched[2]
           /\ xOut.emails = << matched[1], matched[2] >>

(***************************************************************************)
(* The file system that the extractor reads, and the sources of extract    *)
(***************************************************************************)
\* 'notes.txt': a readable file
P_notes == <<"n","o","t","e","s",".","t","x","t">>

\* 'locked.txt': a file whose open() fails
P_locked == <<"l","o","c","k","e","d",".","t","x","t">>

\* 'gone.txt': no such file
P_gone == <<"g","o","n","e",".","t","x","t">>

\* 'docs': a directory
P_docs == <<"d","o","c","s">>

\* 'docs/notes.txt'
P_docs_notes == <<"d","o","c","s","/","n","o","t","e","s",".","t","x","t">>

\* 'docs/more.txt'
P_docs_more == <<"d","o","c","s","/","m","o","r","e",".","t","x","t">>

\* 'docs/sub': a directory inside docs
P_docs_sub == <<"d","o","c","s","/","s","u","b">>

\* 'docs/sub/deep.txt'
P_docs_sub_deep ==
    <<"d","o","c","s","/","s","u","b","/","d","e","e","p",".","t","x","t">>

\* Path.exists / Path.is_dir / Path.is_file / open() of a path
FsKind(path) ==
    IF path \in { P_notes, P_docs_notes, P_docs_more, P_docs_sub_deep } THEN "file"
    ELSE IF path = P_locked THEN "unreadable"
    ELSE IF path \in { P_docs, P_docs_sub } THEN "dir"
    ELSE "missing"

\* f.read() of a readable file
FsText(path) ==
    IF path = P_docs_more THEN T_more
    ELSE IF path = P_docs_sub_deep THEN T_deep
    ELSE T_notes

\* the entries that Path.glob('*') yields for a directory
FsEntries(path) ==
    IF path = P_docs THEN { P_docs_notes, P_docs_more, P_docs_sub }
    ELSE IF path = P_docs_sub THEN { P_docs_sub_deep }
    ELSE {}

\* the orders in which glob may yield the entries (the order is the
\* directory's, it is not sorted)
Listings(path) ==
    LET S == FsEntries(path)
    IN  { o \in [ 1..Cardinality(S) -> S ] :
            \A i, j \in 1..Cardinality(S) : i # j => o[i] # o[j] }

\* a call of extract_from_text that returns r
Returned(r) == [ status |-> "ok", emails |-> r.emails, cache |-> r.cache ]

\* extract_from_file
extract_from_file(path, cs, extracted) ==
    IF FsKind(path) = "missing"
    THEN [ status |-> "FileNotFoundError", emails |-> << >>, cache |-> extracted ]
    ELSE IF FsKind(path) # "file"
    THEN [ status |-> "IOError", emails |-> << >>, cache |-> extracted ]
    ELSE Returned(extract_from_text(FsText(path), cs, extracted))

\* the first loop of extract_from_files from the k-th path: all_emails and
\* the session cache
RECURSIVE FilesLoop(_, _, _, _, _)
RECURSIVE FilesTry(_, _, _, _, _, _)
FilesLoop(paths, k, cs, all_emails, extracted) ==
    IF k > Len(paths) THEN [ emails |-> all_emails, cache |-> extracted ]
    ELSE FilesTry(paths, k, cs, all_emails, extracted,
                  extract_from_file(paths[k], cs, extracted))

\* mutant of FilesTry: the first failing file ends the batch
FilesTryAbort(paths, k, cs, all_emails, extracted, r) ==
    IF r.status = "ok"
    THEN FilesLoop(paths, k + 1, cs, all_emails \o r.emails, r.cache)
    ELSE [ emails |-> all_emails, cache |-> extracted ]

\* the try/except of the loop body, r is the outcome of extract_from_file:
\* an exception is reported and the loop goes on
FilesTry(paths, k, cs, all_emails, extracted, r) ==
    IF r.status = "ok"
    THEN FilesLoop(paths, k + 1, cs, all_emails \o r.emails, r.cache)
    ELSE FilesLoop(paths, k + 1, cs, all_emails, extracted)

\* the second loop of extract_from_files, which removes the duplicates of
\* all_emails
FilesUnique(r) ==
    [ status |-> "ok", emails |-> Dedup(r.emails, 1, {}, << >>),
      cache |-> r.cache ]

\* extract_from_files
extract_from_files(paths, cs, extracted) ==
    FilesUnique(FilesLoop(paths, 1, cs, << >>, extracted))

\* extract_from_directory without recursion and without extension filter;
\* listing is the order in which glob yields the entries
extract_from_directory(path, listing, cs, extracted) ==
    IF FsKind(path) # "dir"
    THEN [ status |-> "NotADirectoryError", emails |-> << >>, cache |-> extracted ]
    ELSE extract_from_files(
             SelectSeq(listing, LAMBDA f : FsKind(f) \in { "file", "unreadable" }),
             cs, extracted)

\* a source is a str or a list of paths
StrSource(s) == [ isList |-> FALSE, str |-> s, list |-> << >> ]

ListSource(l) == [ isList |-> TRUE, str |-> << >>, list |-> l ]

\* str(source): repr of a list of str
RECURSIVE ReprItems(_)
ReprItems(l) ==
    IF l = << >> THEN << >>
    ELSE << "'" >> \o l[1] \o << "'" >>
         \o (IF Len(l) > 1 THEN << ",", " " >> ELSE << >>)
         \o ReprItems(Tail(l))

StrOf(source) ==
    IF source.isList THEN << "[" >> \o ReprItems(source.list) \o << "]" >>
    ELSE source.str

(***************************************************************************)
(* EmailEngine                                                             *)
(***************************************************************************)
\* mutant of engine_extract: an unrecognized source type is taken as text
engine_extract_default_text(source, source_type, listing, cs, extracted) ==
    CASE source_type = "text" ->
            Returned(extract_from_text(StrOf(source), cs, extracted))
      [] source_type = "file" ->
            IF source.isList
            THEN [ status |-> "TypeError", emails |-> << >>, cache |-> extracted ]
            ELSE extract_from_file(source.str, cs, extracted)
      [] source_type = "files" ->
            IF ~ source.isList
            THEN [ status |-> "InvalidArgument", emails |-> << >>,
                   cache |-> extracted ]
            ELSE extract_from_files(source.list, cs, extracted)
      [] source_type = "directory" ->
            IF source.isList
            THEN [ status |-> "TypeError", emails |-> << >>, cache |-> extracted ]
            ELSE extract_from_directory(source.str, listing, cs, extracted)
      [] OTHER ->
            Returned(extract_from_text(StrOf(source), cs, extracted))

\* EmailEngine.extract: status, the list assigned to self.emails and returned
\* (when no exception is raised) and the session cache afterwards
engine_extract(source, source_type, listing, cs, extracted) ==
    CASE source_type = "text" ->
            Returned(extract_from_text(StrOf(source), cs, extracted))
      [] source_type = "file" ->
            IF source.isList
            THEN [ status |-> "TypeError", emails |-> << >>, cache |-> extracted ]
            ELSE extract_from_file(source.str, cs, extracted)
      [] source_type = "files" ->
            IF ~ source.isList
            THEN [ status |-> "InvalidArgument", emails |-> << >>,
                   cache |-> extracted ]
            ELSE extract_from_files(source.list, cs, extracted)
      [] source_type = "directory" ->
            IF source.isList
            THEN [ status |-> "TypeError", emails |-> << >>, cache |-> extracted ]
            ELSE extract_from_directory(source.str, listing, cs, extracted)
      [] OTHER ->
            [ status |-> "InvalidArgument", emails |-> << >>, cache |-> extracted ]

\* a keyword argument that may be absent
Absent == [ given |-> FALSE, val |-> << >> ]

Given(v) == [ given |-> TRUE, val |-> v ]

\* "not kwargs.get(name)": absent, None or empty
Falsy(opt) == ~ opt.given \/ opt.val = << >>

\* mutant of CategorizeDispatch: an unknown method name is taken as type
CategorizeDispatchDefaultType(ems, cat, method, kwargs) ==
    CASE method = "domain" ->
            [ status |-> "ok", categorized |-> categorize_by_domain(ems) ]
      [] method = "type" ->
            [ status |-> "ok", categorized |-> categorize_by_type(ems) ]
      [] method = "keywords" ->
            IF Falsy(kwargs.keywords)
            THEN [ status |-> "InvalidArgument", categorized |-> cat ]
            ELSE [ status |-> "ok",
                   categorized |->
                       categorize_by_keywords(ems, kwargs.keywords.val) ]
      [] method = "pattern" ->
            IF Falsy(kwargs.patterns)
            THEN [ status |-> "InvalidArgument", categorized |-> cat ]
            ELSE IF CompileFails(kwargs.patterns.val)
            THEN [ status |-> "re.error", categorized |-> cat ]
            ELSE [ status |-> "ok",
                   categorized |->
                       categorize_by_pattern(ems, kwargs.patterns.val) ]
      [] method = "custom" ->
            IF Falsy(kwargs.rules)
            THEN [ status |-> "InvalidArgument", categorized |-> cat ]
            ELSE [ status |-> "ok",
                   categorized |->
                       categorize_by_custom_rule(ems, kwargs.rules.val) ]
      [] OTHER ->
            [ status |-> "ok", categorized |-> categorize_by_type(ems) ]

\* the method dispatch of EmailEngine.categorize (engine.py lines 88-117)
CategorizeDispatch(ems, cat, method, kwargs) ==
    CASE method = "domain" ->
            [ status |-> "ok", categorized |-> categorize_by_domain(ems) ]
      [] method = "type" ->
            [ status |-> "ok", categorized |-> categorize_by_type(ems) ]
      [] method = "keywords" ->
            IF Falsy(kwargs.keywords)
            THEN [ status |-> "InvalidArgument", categorized |-> cat ]
            ELSE [ status |-> "ok",
                   categorized |->
                       categorize_by_keywords(ems, kwargs.keywords.val) ]
      [] method = "pattern" ->
            IF Falsy(kwargs.patterns)
            THEN [ status |-> "InvalidArgument", categorized |-> cat ]
            ELSE IF CompileFails(kwargs.patterns.val)
            THEN [ status |-> "re.error", categorized |-> cat ]
            ELSE [ status |-> "ok",
                   categorized |->
                       categorize_by_pattern(ems, kwargs.patterns.val) ]
      [] method = "custom" ->
            IF Falsy(kwargs.rules)
            THEN [ status |-> "InvalidArgument", categorized |-> cat ]
            ELSE [ status |-> "ok",
                   categorized |->
                       categorize_by_custom_rule(ems, kwargs.rules.val) ]
      [] OTHER ->
            [ status |-> "InvalidArgument", categorized |-> cat ]

\* mutant of engine_categorize: the new categories are added to the map
\* instead of replacing it
KeepOld(cat, r) ==
    [ status |-> r.status,
      categorized |-> IF r.status = "ok" THEN cat \o r.categorized ELSE cat ]

engine_categorize_keep_old(ems, cat, method, kwargs) ==
    IF ems = << >>
    THEN [ status |-> "InvalidState", categorized |-> cat ]
    ELSE KeepOld(cat, CategorizeDispatch(ems, cat, method, kwargs))

\* mutant of engine_categorize: the test of self.emails is missing
engine_categorize_unchecked(ems, cat, method, kwargs) ==
    CategorizeDispatch(ems, cat, method, kwargs)

\* EmailEngine.categorize: status and the value of self.categorized
\* afterwards.  ValueError("No emails to categorize. Run extract() first.")
\* is the state error, the other ValueErrors are the invalid-argument error.
engine_categorize(ems, cat, method, kwargs) ==
    IF ems = << >>
    THEN [ status |-> "InvalidState", categorized |-> cat ]
    ELSE CategorizeDispatch(ems, cat, method, kwargs)

\* mutant of filter_emails: without arguments every categorized address is
\* returned
filter_emails_all_categorized(ems, cat, categories, exclude) ==
    IF cat = << >>
    THEN [ status |-> "InvalidState", value |-> << >> ]
    ELSE IF ~ Falsy(categories)
    THEN [ status |-> "ok", value |-> filter_by_category(cat, categories.val) ]
    ELSE [ status |-> "ok", value |-> exclude_categories(cat, exclude.val) ]

\* EmailEngine.filter_emails: status and the returned list.
\* ValueError("No categorization available. Run categorize() first.") is the
\* state error.
filter_emails(ems, cat, categories, exclude) ==
    IF cat = << >>
    THEN [ status |-> "InvalidState", value |-> << >> ]
    ELSE IF ~ Falsy(categories)
    THEN [ status |-> "ok", value |-> filter_by_category(cat, categories.val) ]
    ELSE IF ~ Falsy(exclude)
    THEN [ status |-> "ok", value |-> exclude_categories(cat, exclude.val) ]
    ELSE [ status |-> "ok", value |-> ems ]

\* mutant of reset: the extracted list is not cleared
reset_keep_emails(ems, cat, extracted) ==
    [ emails |-> ems, categorized |-> << >>, cache |-> clear_cache(extracted) ]

\* mutant of reset: the session cache is not cleared
reset_keep_cache(ems, cat, extracted) ==
    [ emails |-> << >>, categorized |-> << >>, cache |-> extracted ]

\* EmailEngine.reset: the three fields afterwards
reset(ems, cat, extracted) ==
    [ emails |-> << >>, categorized |-> << >>, cache |-> clear_cache(extracted) ]

(***************************************************************************)
(* EmailEngine: exports and summary                                        *)
(***************************************************************************)
\* str.upper() on one character
UpperCh(c) == IF c \in Lower
              THEN UpperSeq[CHOOSE i \in 1..26 : LowerSeq[i] = c]
              ELSE c

\* str.upper()
StrUpper(s) == [ i \in 1..Len(s) |-> UpperCh(s[i]) ]

\* the characters that make csv.writer quote a field (QUOTE_MINIMAL with
\* delimiter ',', quotechar '"' and lineterminator '\r\n')
CsvSpecial == { ",", "\"", "\r", "\n" }

\* doublequote: every '"' of a quoted field is written twice
RECURSIVE CsvEscape(_)
CsvEscape(s) ==
    IF s = << >> THEN << >>
    ELSE (IF Head(s) = "\"" THEN << "\"", "\"" >> ELSE << Head(s) >>)
         \o CsvEscape(Tail(s))

\* mutant of CsvField: the field is written as it is
CsvFieldRaw(s) == s

\* one field as csv.writer writes it
CsvField(s) ==
    IF \E i \in 1..Len(s) : s[i] \in CsvSpecial
    THEN << "\"" >> \o CsvEscape(s) \o << "\"" >>
    ELSE s

\* the fields of a row joined by the delimiter
RECURSIVE CsvJoin(_)
CsvJoin(fields) ==
    IF fields = << >> THEN << >>
    ELSE CsvField(Head(fields))
         \o (IF Len(fields) > 1 THEN << "," >> ELSE << >>)
         \o CsvJoin(Tail(fields))

\* csv.writer(f).writerow(fields): the text appended to the file
writerow(fields) == CsvJoin(fields) \o << "\r", "\n" >>

\* 'Email'
H_Email == <<"E","m","a","i","l">>

\* 'Category'
H_Category == <<"C","a","t","e","g","o","r","y">>

\* the rows of one list of addresses from its i-th address, each followed
\* by the fields of tail
RECURSIVE CsvEmailRows(_, _, _)
CsvEmailRows(list, tail, i) ==
    IF i > Len(list) THEN << >>
    ELSE writerow(<< list[i] >> \o tail) \o CsvEmailRows(list, tail, i + 1)

\* "for category, emails in self.categorized.items(): for email in emails:
\*  writer.writerow([email, category])" from the k-th entry of the map
RECURSIVE CsvCategoryRows(_, _)
CsvCategoryRows(m, k) ==
    IF k > Len(m) THEN << >>
    ELSE CsvEmailRows(m[k].emails, << m[k].label >>, 1)
         \o CsvCategoryRows(m, k + 1)

\* export_to_csv: the text written to the output file
export_to_csv(ems, cat, include_category) ==
    IF include_category /\ cat # << >>
    THEN writerow(<< H_Email, H_Category >>) \o CsvCategoryRows(cat, 1)
    ELSE writerow(<< H_Email >>) \o CsvEmailRows(ems, << >>, 1)

\* "for email in ...: f.write(f"{email}\\n")" from the i-th address
RECURSIVE TxtLines(_, _)
TxtLines(list, i) ==
    IF i > Len(list) THEN << >>
    ELSE list[i] \o << "\n" >> \o TxtLines(list, i + 1)

\* "for category, emails in self.categorized.items():" of export_to_txt from
\* the k-th entry of the map
RECURSIVE TxtGroups(_, _)
TxtGroups(m, k) ==
    IF k > Len(m) THEN << >>
    ELSE << "\n", "=", "=", "=", " " >> \o StrUpper(m[k].label)
         \o << " ", "=", "=", "=", "\n" >>
         \o TxtLines(m[k].emails, 1)
         \o TxtGroups(m, k + 1)

\* export_to_txt: the text written to the output file
export_to_txt(ems, cat, grouped_by_category) ==
    IF grouped_by_category /\ cat # << >>
    THEN TxtGroups(cat, 1)
    ELSE TxtLines(ems, 1)

\* export_to_json: the object handed to json.dump; statistics is present
\* only when it was asked for and the map is not empty
export_to_json(ems, cat, include_stats) ==
    [ emails |-> ems, categorized |-> cat,
      has_statistics |-> include_stats /\ cat # << >>,
      statistics |-> IF include_stats /\ cat # << >>
                     THEN get_statistics(cat) ELSE << >> ]

\* get_summary: the returned dict; categories and statistics are present
\* only when the map is not empty
get_summary(ems, cat) ==
    [ total_emails |-> Len(ems),
      has_categorization |-> cat # << >>,
      categories |-> IF cat # << >> THEN Keys(cat) ELSE << >>,
      statistics |-> IF cat # << >> THEN get_statistics(cat) ELSE << >> ]

\* the file at output_path after an export: its format and what was written
NoFile == [ kind |-> "none", text |-> << >>, data |-> << >> ]

TextFile(kind, text) == [ kind |-> kind, text |-> text, data |-> << >> ]

DataFile(kind, data) == [ kind |-> kind, text |-> << >>, data |-> data ]

(***************************************************************************)
(* Specification of the engine                                             *)
(***************************************************************************)
\* the outcome of the last call: the operation, "ok" or the error raised,
\* the returned value (a list, a category map, the dict of process or of
\* get_summary) and the file that the call wrote
Ret(op, status, list, map) ==
    [ op |-> op, status |-> status, list |-> list, map |-> map,
      stats |-> << >>, total |-> 0, flag |-> FALSE, file |-> NoFile ]

\* the calls of extract that are enumerated
ExtractCalls ==
    { [ source |-> StrSource(t), source_type |-> "text" ] :
          t \in { T_contact, T_none, << >> } }
    \cup { [ source |-> StrSource(p), source_type |-> "file" ] :
          p \in { P_notes, P_gone, P_locked } }
    \cup { [ source |-> ListSource(<< P_notes, P_gone, P_docs_more >>),
             source_type |-> "files" ],
           [ source |-> StrSource(P_notes), source_type |-> "files" ],
           [ source |-> StrSource(P_docs), source_type |-> "directory" ],
           [ source |-> StrSource(P_notes), source_type |-> "directory" ],
           [ source |-> StrSource(T_contact), source_type |-> "url" ] }

\* the calls of process that are enumerated, all without keyword arguments
ProcessCalls ==
    { [ source |-> StrSource(t), source_type |-> ty, method |-> m ] :
          t \in { T_contact, T_none }, ty \in { "text", "file" },
          m \in { "type", "keywords" } }
    \cup { [ source |-> StrSource(P_notes), source_type |-> "file",
             method |-> m ] : m \in { "domain", "type" } }

Methods == { "domain", "type", "keywords", "pattern", "custom", "cluster" }

NoKwargs == [ keywords |-> Absent, patterns |-> Absent, rules |-> Absent ]

\* 'vip, "gold"': a label with the delimiter and the quote character of csv
L_quoted == <<"v","i","p",","," ","\"","g","o","l","d","\"">>

\* the keyword arguments of categorize that are enumerated
KwargsSet ==
    { NoKwargs,
      [ NoKwargs EXCEPT !.keywords = Given(KeywordsExample) ],
      [ NoKwargs EXCEPT !.keywords = Given(<< >>) ],
      [ NoKwargs EXCEPT !.patterns =
            Given(<< [ label |-> L_sales, pattern |-> PatSales ],
                     [ label |-> L_numeric, pattern |-> PatNumeric ] >>) ],
      [ NoKwargs EXCEPT !.patterns =
            Given(<< [ label |-> L_boom, pattern |-> PatInvalid ] >>) ],
      [ NoKwargs EXCEPT !.rules =
            Given(<< [ label |-> L_boom, rule |-> "raises" ],
                     [ label |-> L_long, rule |-> "is_long" ] >>) ],
      [ NoKwargs EXCEPT !.rules =
            Given(<< [ label |-> L_quoted, rule |-> "is_short" ] >>) ] }

L_nolabel == <<"n","o","l","a","b","e","l">>

\* the arguments of filter_emails that are enumerated
CategoriesArgs == { Absent, Given(<< >>), Given(<< L_free >>),
                    Given(<< L_other, L_free, L_nolabel >>) }

ExcludeArgs == { Absent, Given(<< L_free >>) }

Init ==
    /\ case_sensitive \in BOOLEAN
    /\ emails = << >>
    /\ categorized = << >>
    /\ cache = {}
    /\ ret = Ret("init", "ok", << >>, << >>)
    /\ CatIdle
    /\ ExtractorIdle
    /\ FilterIdle
    /\ CliIdle

EngineFrame == UNCHANGED << case_sensitive, cIn, cOut, xText, xOut,
                            xPaths, xLog, fIn, fOut,
        args, cli >>

Extract(source, source_type) ==
    /\ \E listing \in Listings(StrOf(source)) :
       \E r \in { engine_extract(source, source_type, listing,
                                 case_sensitive, cache) } :
          /\ emails' = IF r.status = "ok" THEN r.emails ELSE emails
          /\ cache' = r.cache
          /\ ret' = Ret("extract", r.status, r.emails, << >>)
    /\ UNCHANGED categorized
    /\ EngineFrame

Categorize(method, kwargs) ==
    /\ LET r == engine_categorize(emails, categorized, method, kwargs)
       IN  /\ categorized' = r.categorized
           /\ ret' = Ret("categorize", r.status, << >>,
                         IF r.status = "ok" THEN r.categorized ELSE << >>)
    /\ UNCHANGED << emails, cache >>
    /\ EngineFrame

\* mutant of Process: a failing call puts back the list that extract
\* replaced
ProcessAllOrNothing(source, source_type, method, kwargs) ==
    /\ \E listing \in Listings(StrOf(source)) :
       \E x \in { engine_extract(source, source_type, listing,
                                 case_sensitive, cache) } :
       \E ems \in { IF x.status = "ok" THEN x.emails ELSE emails } :
       \E c \in { engine_categorize(ems, categorized, method, kwargs) } :
              /\ emails' = IF x.status = "ok" /\ c.status = "ok"
                           THEN ems ELSE emails
              /\ cache' = x.cache
              /\ categorized' = IF x.status = "ok" THEN c.categorized
                                ELSE categorized
              /\ ret' = IF x.status # "ok"
                        THEN Ret("process", x.status, << >>, << >>)
                        ELSE IF c.status # "ok"
                        THEN Ret("process", c.status, << >>, << >>)
                        ELSE [ Ret("process", "ok", ems, c.categorized)
                                 EXCEPT !.stats = get_statistics(c.categorized),
                                        !.total = Len(ems) ]
    /\ EngineFrame

\* EmailEngine.process: extract, then categorize, then get_statistics; an
\* exception of a step ends the call with the earlier steps done
Process(source, source_type, method, kwargs) ==
    /\ \E listing \in Listings(StrOf(source)) :
       \E x \in { engine_extract(source, source_type, listing,
                                 case_sensitive, cache) } :
       \E ems \in { IF x.status = "ok" THEN x.emails ELSE emails } :
       \E c \in { engine_categorize(ems, categorized, method, kwargs) } :
              /\ emails' = ems
              /\ cache' = x.cache
              /\ categorized' = IF x.status = "ok" THEN c.categorized
                                ELSE categorized
              /\ ret' = IF x.status # "ok"
                        THEN Ret("process", x.status, << >>, << >>)
                        ELSE IF c.status # "ok"
                        THEN Ret("process", c.status, << >>, << >>)
                        ELSE [ Ret("process", "ok", ems, c.categorized)
                                 EXCEPT !.stats = get_statistics(c.categorized),
                                        !.total = Len(ems) ]
    /\ EngineFrame

FilterEmails(categories, exclude) ==
    /\ LET r == filter_emails(emails, categorized, categories, exclude)
       IN  ret' = Ret("filter_emails", r.status, r.value, << >>)
    /\ UNCHANGED << emails, categorized, cache >>
    /\ EngineFrame

Reset ==
    /\ LET r == reset(emails, categorized, cache)
       IN  /\ emails' = r.emails
           /\ categorized' = r.categorized
           /\ cache' = r.cache
    /\ ret' = Ret("reset", "ok", << >>, << >>)
    /\ EngineFrame

\* EmailEngine.extractor.get_all_extracted()
GetAllExtracted ==
    /\ ret' = Ret("get_all_extracted", "ok", get_all_extracted(cache), << >>)
    /\ UNCHANGED << emails, categorized, cache >>
    /\ EngineFrame

\* an export whose open(output_path, 'w') fails raises OSError before
\* anything is written
ExportToJson(include_stats, writable) ==
    /\ ret' = IF writable
              THEN [ Ret("export_to_json", "ok", << >>, << >>)
                     EXCEPT !.file = DataFile("json",
                         export_to_json(emails, categorized, include_stats)) ]
              ELSE Ret("export_to_json", "OSError", << >>, << >>)
    /\ UNCHANGED << emails, categorized, cache >>
    /\ EngineFrame

ExportToCsv(include_category, writable) ==
    /\ ret' = IF writable
              THEN [ Ret("export_to_csv", "ok", << >>, << >>)
                     EXCEPT !.file = TextFile("csv",
                         export_to_csv(emails, categorized, include_category)) ]
              ELSE Ret("export_to_csv", "OSError", << >>, << >>)
    /\ UNCHANGED << emails, categorized, cache >>
    /\ EngineFrame

\* mutant of ExportToTxt: the export consumes what it wrote
ExportToTxtAndForget(grouped_by_category, writable) ==
    /\ ret' = IF writable
              THEN [ Ret("export_to_txt", "ok", << >>, << >>)
                     EXCEPT !.file = TextFile("txt",
                         export_to_txt(emails, categorized,
                                       grouped_by_category)) ]
              ELSE Ret("export_to_txt", "OSError", << >>, << >>)
    /\ emails' = << >>
    /\ UNCHANGED << categorized, cache >>
    /\ EngineFrame

ExportToTxt(grouped_by_category, writable) ==
    /\ ret' = IF writable
              THEN [ Ret("export_to_txt", "ok", << >>, << >>)
                     EXCEPT !.file = TextFile("txt",
                         export_to_txt(emails, categorized,
                                       grouped_by_category)) ]
              ELSE Ret("export_to_txt", "OSError", << >>, << >>)
    /\ UNCHANGED << emails, categorized, cache >>
    /\ EngineFrame

GetSummary ==
    /\ \E s \in { get_summary(emails, categorized) } :
          ret' = [ Ret("get_summary", "ok", s.categories, << >>)
                   EXCEPT !.stats = s.statistics,
                          !.total = s.total_emails,
                          !.flag = s.has_categorization ]
    /\ UNCHANGED << emails, categorized, cache >>
    /\ EngineFrame

Next ==
    \/ \E c \in ExtractCalls : Extract(c.source, c.source_type)
    \/ \E m \in Methods, kw \in KwargsSet : Categorize(m, kw)
    \/ \E c \in ProcessCalls : Process(c.source, c.source_type, c.method, NoKwargs)
    \/ \E c \in CategoriesArgs, x \in ExcludeArgs : FilterEmails(c, x)
    \/ Reset
    \/ GetAllExtracted
    \/ \E b, w \in BOOLEAN : ExportToJson(b, w)
    \/ \E b, w \in BOOLEAN : ExportToCsv(b, w)
    \/ \E b, w \in BOOLEAN : ExportToTxt(b, w)
    \/ GetSummary

Spec == Init /\ [][Next]_vars

(***************************************************************************)
(* Properties of the engine                                                *)
(***************************************************************************)
\* C3: categorize fails with the state error whenever lastExtracted is empty,
\* for every method and every options value, and the failed call changes
\* neither lastExtracted nor lastCategorized.
C3_CategorizeNeedsEmails ==
    [][ \A m \in Methods, kw \in KwargsSet :
            (emails = << >> /\ Categorize(m, kw))
            => /\ ret'.status = "InvalidState"
               /\ emails' = emails
               /\ categorized' = categorized ]_vars

\* C3 witness: categorize failed with the state error after an extract that
\* found no address had emptied lastExtracted (the cache and the earlier
\* categorization are still there)
C3_Witness ==
    /\ ret.op = "categorize" /\ ret.status = "InvalidState"
    /\ emails = << >>
    /\ cache # {}
    /\ categorized # << >>

\* the list extracted from the text of the end-to-end example
ContactEmails == << A_sales, A_support, A_info >>

\* C5 as stated: extracting from "Contact sales@company.com or
\* support@company.com or info@gmail.com" and categorizing by type yields
\* free = [info@gmail.com] and other = [sales@company.com, support@company.com].
C5_Original ==
    [][ ( /\ ret.op = "extract"
          /\ emails = ContactEmails
          /\ Categorize("type", NoKwargs) )
        => /\ Get(ret'.map, L_free) = << A_info >>
           /\ Get(ret'.map, L_other) = << A_sales, A_support >> ]_vars

\* C5 amended: extracting from that text yields sales, support, info in this
\* order, and categorizing by type then yields free = [info@gmail.com],
\* business = [sales@company.com, support@company.com] and empty educational,
\* government and other lists.
C5_EndToEnd ==
    [][ /\ Extract(StrSource(T_contact), "text") => emails' = ContactEmails
        /\ ( /\ ret.op = "extract"
             /\ emails = ContactEmails
             /\ Categorize("type", NoKwargs) )
           => /\ ret'.status = "ok"
              /\ ret'.map = categorized'
              /\ ret'.map =
                   << [ label |-> L_free,        emails |-> << A_info >> ],
                      [ label |-> L_business,    emails |-> << A_sales, A_support >> ],
                      [ label |-> L_educational, emails |-> << >> ],
                      [ label |-> L_government,  emails |-> << >> ],
                      [ label |-> L_other,       emails |-> << >> ] >> ]_vars

\* C5 witness: the three addresses of the text were categorized by type
C5_Witness ==
    /\ emails = ContactEmails
    /\ ret.op = "categorize" /\ ret.status = "ok"
    /\ Keys(ret.map) = Keys(TypeCategories)
    /\ Get(ret.map, L_business) = << A_sales, A_support >>

\* C9: filter_emails fails with the state error whenever lastCategorized is
\* empty; with lastCategorized non-empty and neither argument given it
\* returns lastExtracted; it never changes lastExtracted or lastCategorized.
C9_FilterEmails ==
    [][ \A c \in CategoriesArgs, x \in ExcludeArgs :
            FilterEmails(c, x)
            => /\ categorized = << >> => ret'.status = "InvalidState"
               /\ (categorized # << >> /\ c = Absent /\ x = Absent)
                     => (ret'.status = "ok" /\ ret'.list = emails)
               /\ emails' = emails
               /\ categorized' = categorized ]_vars

\* C9 witness: filter_emails returned lastExtracted, which is not the
\* concatenation of the category lists
C9_Witness ==
    /\ ret.op = "filter_emails" /\ ret.status = "ok"
    /\ categorized # << >>
    /\ emails # << >>
    /\ ret.list = emails
    /\ emails # Flatten(categorized)

\* C10: reset empties lastExtracted, lastCategorized and the session cache;
\* right after it categorize and filter_emails fail with the state error and
\* get_all_extracted returns the empty list.
C10_Reset ==
    [][ /\ Reset => /\ emails' = << >>
                    /\ categorized' = << >>
                    /\ cache' = {}
        /\ ret.op = "reset"
           => /\ \A m \in Methods, kw \in KwargsSet :
                    Categorize(m, kw) => ret'.status = "InvalidState"
              /\ \A c \in CategoriesArgs, x \in ExcludeArgs :
                    FilterEmails(c, x) => ret'.status = "InvalidState"
              /\ GetAllExtracted => ret'.list = << >> ]_vars

\* C10 witness: the engine has been reset
C10_Witness ==
    /\ ret.op = "reset"
    /\ emails = << >> /\ categorized = << >> /\ cache = {}

\* C11: export_to_json, export_to_csv, export_to_txt and get_summary leave
\* lastExtracted, lastCategorized and the session cache unchanged in every
\* state, for every value of their options and whether or not the output
\* file can be written.
C11_ExportsFrame ==
    [][ ret'.op \in { "export_to_json", "export_to_csv", "export_to_txt",
                      "get_summary" }
        => /\ emails' = emails
           /\ categorized' = categorized
           /\ cache' = cache ]_vars

\* a grouped text export that wrote a file from a non-empty state
C11_Witness ==
    /\ ret.op = "export_to_txt"
    /\ ret.status = "ok"
    /\ ret.file.kind = "txt"
    /\ Len(ret.file.text) > 0
    /\ emails # << >>
    /\ categorized # << >>
    /\ cache # {}

\* csv.reader over the text of the file (opened with newline=''): the list
\* of rows, each a list of fields.  A field that starts with '"' is quoted:
\* it runs to the first '"' that is not the first of a pair "", the pairs
\* stand for one '"', and what follows the closing quote up to the delimiter
\* is taken as it is.  A line ends at "\r", "\n" or "\r\n".
\* first index from p of a character of S, Len(t)+1 when there is none
FirstOf(t, p, S) ==
    MinOf({ j \in p..Len(t) : t[j] \in S } \cup { Len(t) + 1 })

\* index of the quote that closes the quoted field opened at q
QuoteClose(t, q) ==
    MinOf({ j \in (q + 1)..Len(t) :
              /\ t[j] = "\""
              /\ Cardinality({ k \in (q + 1)..j : t[k] = "\"" }) % 2 = 1
              /\ (j = Len(t) \/ t[j + 1] # "\"") }
          \cup { Len(t) + 1 })

\* index of the delimiter or line end that ends the field starting at p
FieldStop(t, p) ==
    IF p <= Len(t) /\ t[p] = "\""
    THEN FirstOf(t, QuoteClose(t, p) + 1, { ",", "\r", "\n" })
    ELSE FirstOf(t, p, { ",", "\r", "\n" })

\* the text of a quoted field with every pair "" replaced by one '"'
RECURSIVE Unquote(_)
Unquote(s) ==
    IF s = << >> THEN << >>
    ELSE IF Len(s) >= 2 /\ s[1] = "\"" /\ s[2] = "\""
    THEN << "\"" >> \o Unquote(SubSeq(s, 3, Len(s)))
    ELSE << s[1] >> \o Unquote(Tail(s))

\* the field that starts at p and ends before stop
FieldValue(t, p, stop) ==
    IF p <= Len(t) /\ t[p] = "\""
    THEN Unquote(SubSeq(t, p + 1, QuoteClose(t, p) - 1))
         \o SubSeq(t, QuoteClose(t, p) + 1, stop - 1)
    ELSE SubSeq(t, p, stop - 1)

\* the rows read from position p on, row holds the fields of the current
\* row read so far
RECURSIVE ReadFrom(_, _, _, _)
RECURSIVE ReadField(_, _, _, _, _)
ReadFrom(t, p, row, rows) ==
    IF p > Len(t) /\ row = << >> THEN rows
    ELSE ReadField(t, p, FieldStop(t, p), row, rows)

ReadField(t, p, stop, row, rows) ==
    IF stop > Len(t)
    THEN Append(rows, Append(row, FieldValue(t, p, stop)))
    ELSE IF t[stop] = ","
    THEN ReadFrom(t, stop + 1, Append(row, FieldValue(t, p, stop)), rows)
    ELSE ReadFrom(t,
                  IF t[stop] = "\r" /\ stop < Len(t) /\ t[stop + 1] = "\n"
                  THEN stop + 2 ELSE stop + 1,
                  << >>, Append(rows, Append(row, FieldValue(t, p, stop))))

csv_reader(t) == ReadFrom(t, 1, << >>, << >>)

\* the k-th (address, category) pair of a category map, counted through the
\* entries in order and through each list in order
RECURSIVE PairAt(_, _)
PairAt(m, k) ==
    IF k <= Len(m[1].emails) THEN << m[1].emails[k], m[1].label >>
    ELSE PairAt(Tail(m), k - Len(m[1].emails))

\* the rows read from the file are the header and then the pairs of m
RowsArePairs(rows, m) ==
    /\ Len(rows) = 1 + Len(Flatten(m))
    /\ rows[1] = << H_Email, H_Category >>
    /\ \A k \in 1..Len(Flatten(m)) : rows[k + 1] = PairAt(m, k)

\* C12: whenever lastCategorized is non-empty, the rows that export_to_csv
\* writes with the category column, read back, are the header and then
\* exactly the (address, category) pairs of lastCategorized, one row per
\* pair, in map order and within a category in list order.
C12_CsvRoundTrip ==
    [][ ( /\ ret'.op = "export_to_csv"
          /\ categorized # << >>
          /\ ExportToCsv(TRUE, TRUE) )
        => RowsArePairs(csv_reader(ret'.file.text), categorized) ]_vars

\* an export with the category column of a map with two labels, one of
\* which has to be quoted
C12_Witness ==
    /\ ret.op = "export_to_csv"
    /\ ret.status = "ok"
    /\ StartsWith(ret.file.text, H_Email \o << "," >> \o H_Category)
    /\ HasKey(categorized, L_quoted)
    /\ HasKey(categorized, L_uncategorized)
    /\ Len(Flatten(categorized)) >= 2
    /\ \E i \in 1..Len(ret.file.text) : ret.file.text[i] = "\""

(***************************************************************************)
(* Specification of the category filter: filter_by_category or             *)
(* exclude_categories applied to a category map and a list of labels       *)
(***************************************************************************)
\* longest enumerated list of requested labels
MaxLabels == 2

\* the lists that an entry of an enumerated map may hold
FilterLists == { << >>, << A_info >>, << A_sales, A_info >> }

\* the category maps over the labels of S: every order of every subset, the
\* labels pairwise distinct
RECURSIVE MapsOver(_)
MapsOver(S) ==
    { << >> }
    \cup UNION { { << [ label |-> l, emails |-> e ] >> \o m :
                       e \in FilterLists, m \in MapsOver(S \ { l }) } :
                 l \in S }

FilterMaps == MapsOver({ L_free, L_business, L_other })

\* the requested label lists: labels of the maps and one that no map has,
\* repetitions included
FilterLabelLists ==
    ListsUpTo({ L_free, L_business, L_other, L_nolabel }, MaxLabels)

InitFilter ==
    /\ fIn \in [ map : FilterMaps, categories : FilterLabelLists ]
    /\ fOut = NoFilter
    /\ EngineIdle
    /\ ExtractorIdle
    /\ CatIdle
    /\ CliIdle

FilterFrame == UNCHANGED << case_sensitive, emails, categorized, cache, ret,
                            cIn, cOut, xText, xOut, xPaths, xLog, fIn,
        args, cli >>

\* the two methods are applied to the same map and labels, each once, in
\* either order
FilterByCategory ==
    /\ fOut.op # "filter_by_category"
    /\ fOut' = [ op |-> "filter_by_category",
                 list |-> filter_by_category(fIn.map, fIn.categories) ]
    /\ FilterFrame

ExcludeCategories ==
    /\ fOut.op # "exclude_categories"
    /\ fOut' = [ op |-> "exclude_categories",
                 list |-> exclude_categories(fIn.map, fIn.categories) ]
    /\ FilterFrame

NextFilter == FilterByCategory \/ ExcludeCategories

SpecFilter == InitFilter /\ [][NextFilter]_vars

\* the concatenation of a list of lists
RECURSIVE ConcatAll(_)
ConcatAll(ll) == IF ll = << >> THEN << >> ELSE Head(ll) \o ConcatAll(Tail(ll))

\* C13: filter_by_category returns the lists of the requested labels that
\* the map has, concatenated in the order of the request; exclude_categories
\* returns the lists of the labels that are not excluded, concatenated in
\* the order of the map.
C13_FilterOrder ==
    /\ fOut.op = "filter_by_category"
       => fOut.list =
            ConcatAll([ i \in 1..Len(fIn.categories) |->
                          IF \E k \in 1..Len(fIn.map) :
                                 fIn.map[k].label = fIn.categories[i]
                          THEN Get(fIn.map, fIn.categories[i])
                          ELSE << >> ])
    /\ fOut.op = "exclude_categories"
       => fOut.list =
            ConcatAll([ k \in 1..Len(fIn.map) |->
                          IF \E i \in 1..Len(fIn.categories) :
                                 fIn.categories[i] = fIn.map[k].label
                          THEN << >>
                          ELSE fIn.map[k].emails ])

\* the request [other, free] on a map that has free before other: the
\* result starts with the list of other, which the map's order would not give
C13_Witness ==
    /\ fOut.op = "filter_by_category"
    /\ fIn.categories = << L_other, L_free >>
    /\ fIn.map = << [ label |-> L_free, emails |-> << A_info >> ],
                    [ label |-> L_business, emails |-> << A_sales, A_info >> ],
                    [ label |-> L_other, emails |-> << A_sales, A_info >> ] >>
    /\ fOut.list = << A_sales, A_info, A_info >>
    /\ fOut.list # Flatten(SelectSeq(fIn.map,
                       LAMBDA entry : entry.label \in SetOf(fIn.categories)))

(***************************************************************************)
(* Specification of an extractor session: text extractions, clear_cache    *)
(* and get_all_extracted in any order on one EmailExtractor                *)
(***************************************************************************)
\* the texts of the session: '', 'z', 'B@b.cc', 'Z@y.org z', 'a@b.cc ',
\* 'A@b.cc c@d.io ', 'c@d.io a@b.cc' and 'x@y.org a@b.cc '
SessionTexts ==
    { << >>,
      <<"z">>,
      <<"B","@","b",".","c","c">>,
      <<"Z","@","y",".","o","r","g"," ","z">>,
      <<"a","@","b",".","c","c"," ">>,
      <<"A","@","b",".","c","c"," ","c","@","d",".","i","o"," ">>,
      <<"c","@","d",".","i","o"," ","a","@","b",".","c","c">>,
      <<"x","@","y",".","o","r","g"," ","a","@","b",".","c","c"," ">> }

\* xLog records the addresses that the extract_from_text calls returned
\* since the last clear_cache
InitSession ==
    /\ case_sensitive \in BOOLEAN
    /\ cache = {}
    /\ xLog = {}
    /\ xText = << >>
    /\ xOut = [ op |-> "none" ]
    /\ xPaths = << >>
    /\ emails = << >>
    /\ categorized = << >>
    /\ ret = [ op |-> "none" ]
    /\ CatIdle
    /\ FilterIdle
    /\ CliIdle

SessionFrame == UNCHANGED << case_sensitive, emails, categorized, ret,
                             cIn, cOut, xPaths, fIn, fOut,
        args, cli >>

SessionExtract(text) ==
    /\ \E r \in { extract_from_text(text, case_sensitive, cache) } :
          /\ xOut' = [ op |-> "extract_from_text", emails |-> r.emails ]
          /\ cache' = r.cache
          /\ xLog' = xLog \cup SetOf(r.emails)
    /\ xText' = text
    /\ SessionFrame

SessionClear ==
    /\ cache' = clear_cache(cache)
    /\ xLog' = {}
    /\ xOut' = [ op |-> "clear_cache", emails |-> << >> ]
    /\ UNCHANGED xText
    /\ SessionFrame

SessionGetAll ==
    /\ xOut' = [ op |-> "get_all_extracted",
                 emails |-> get_all_extracted(cache) ]
    /\ UNCHANGED << cache, xLog, xText >>
    /\ SessionFrame

NextSession ==
    \/ \E text \in SessionTexts : SessionExtract(text)
    \/ SessionClear
    \/ SessionGetAll

SpecSession == InitSession /\ [][NextSession]_vars

\* C14: get_all_extracted returns, in ascending order and without
\* duplicates, exactly the addresses that the extract_from_text calls
\* returned since the last clear_cache (or since construction), and right
\* after clear_cache it would return the empty list.
C14_SessionCache ==
    /\ xOut.op = "get_all_extracted"
       => /\ SetOf(xOut.emails) = xLog
          /\ \A i, j \in 1..Len(xOut.emails) :
                i < j => StrLess(xOut.emails[i], xOut.emails[j])
    /\ xOut.op = "clear_cache" => get_all_extracted(cache) = << >>

\* get_all_extracted after at least two calls with different results: it
\* returns three addresses although the last text had none
C14_Witness ==
    /\ xOut.op = "get_all_extracted"
    /\ Len(xOut.emails) = 3
    /\ xText = <<"z">>
    /\ xLog # {}

(***************************************************************************)
(* Specification of multi-file extraction: extract_from_files applied to   *)
(* a list of paths                                                         *)
(***************************************************************************)
\* longest enumerated list of paths
MaxPaths == 3

\* readable files (two of them with the same text), a missing file, a file
\* that cannot be opened and a directory
PathPool == { P_notes, P_docs_notes, P_docs_more, P_gone, P_locked, P_docs }

PathLists == ListsUpTo(PathPool, MaxPaths)

InitFiles ==
    /\ xPaths \in PathLists
    /\ case_sensitive \in BOOLEAN
    /\ cache = {}
    /\ xLog = {}
    /\ xText = << >>
    /\ xOut = [ op |-> "none" ]
    /\ emails = << >>
    /\ categorized = << >>
    /\ ret = [ op |-> "none" ]
    /\ CatIdle
    /\ FilterIdle
    /\ CliIdle

ExtractFromFiles ==
    /\ xOut.op = "none"
    /\ \E r \in { extract_from_files(xPaths, case_sensitive, cache) } :
          /\ xOut' = [ op |-> "extract_from_files", status |-> r.status,
                       emails |-> r.emails ]
          /\ cache' = r.cache
    /\ UNCHANGED << case_sensitive, emails, categorized, ret, cIn, cOut,
                    xText, xPaths, xLog, fIn, fOut,
        args, cli >>

NextFiles == ExtractFromFiles

SpecFiles == InitFiles /\ [][NextFiles]_vars

\* what the files of a list hold, file by file in the order given: the
\* addresses of a file that can be read, nothing for any other path
Merged(paths, cs) ==
    ConcatAll([ i \in 1..Len(paths) |->
                  IF FsKind(paths[i]) = "file"
                  THEN extract_from_text(FsText(paths[i]), cs, {}).emails
                  ELSE << >> ])

\* C15: for every list of paths, whichever of them are missing or cannot be
\* read, extract_from_files returns normally; the result holds exactly the
\* addresses of the readable files, each once, in the order of their first
\* occurrence over the files in the order given.
C15_FilesBatch ==
    xOut.op = "extract_from_files"
    => /\ xOut.status = "ok"
       /\ SetOf(xOut.emails) = SetOf(Merged(xPaths, case_sensitive))
       /\ \A i, j \in 1..Len(xOut.emails) :
             i < j => /\ xOut.emails[i] # xOut.emails[j]
                      /\ FirstPos(Merged(xPaths, case_sensitive), xOut.emails[i])
                         < FirstPos(Merged(xPaths, case_sensitive),
                                    xOut.emails[j])

\* a missing file first, then two readable files that share an address:
\* three addresses are returned, the shared one once
C15_Witness ==
    /\ xOut.op = "extract_from_files"
    /\ xPaths = << P_gone, P_notes, P_docs_more >>
    /\ Len(xOut.emails) = 3
    /\ Len(Merged(xPaths, case_sensitive)) = 4

\* the source types that extract recognizes
SourceTypes == { "text", "file", "files", "directory" }

\* C16: extract with an unrecognized source type, or with source type
\* 'files' and a source that is not a list, fails with the invalid-argument
\* error and leaves lastExtracted, lastCategorized and the session cache
\* unchanged; a successful extract replaces lastExtracted with exactly the
\* list it returns.
C16_ExtractArguments ==
    [][ ret'.op = "extract"
        => /\ \A c \in ExtractCalls :
                 ( /\ \/ c.source_type \notin SourceTypes
                      \/ c.source_type = "files" /\ ~ c.source.isList
                   /\ Extract(c.source, c.source_type) )
                 => /\ ret'.status = "InvalidArgument"
                    /\ emails' = emails
                    /\ categorized' = categorized
                    /\ cache' = cache
           /\ ret'.status = "ok" => emails' = ret'.list ]_vars

\* an extract that failed with the invalid-argument error in a state with
\* addresses, a categorization and a non-empty session cache
C16_Witness ==
    /\ ret.op = "extract"
    /\ ret.status = "InvalidArgument"
    /\ emails # << >>
    /\ categorized # << >>
    /\ cache # {}

\* the method names that categorize recognizes
MethodNames == { "domain", "type", "keywords", "pattern", "custom" }

\* the call categorize(method, **kwargs) lacks the option that method needs
LacksOption(method, kwargs) ==
    \/ method = "keywords" /\ ~ kwargs.keywords.given
    \/ method = "pattern" /\ ~ kwargs.patterns.given
    \/ method = "custom" /\ ~ kwargs.rules.given

\* C17: when lastExtracted is non-empty, categorize with method keywords,
\* pattern or custom and without the option of that method, or with an
\* unknown method name, fails with the invalid-argument error and leaves
\* lastCategorized at its previous value.
C17_CategorizeArguments ==
    [][ (ret'.op = "categorize" /\ emails # << >>)
        => \A m \in Methods, kw \in KwargsSet :
              ( /\ LacksOption(m, kw) \/ m \notin MethodNames
                /\ Categorize(m, kw) )
              => /\ ret'.status = "InvalidArgument"
                 /\ categorized' = categorized ]_vars

\* a categorize that failed with the invalid-argument error and left an
\* earlier categorization in place
C17_Witness ==
    /\ ret.op = "categorize"
    /\ ret.status = "InvalidArgument"
    /\ emails # << >>
    /\ categorized # << >>

\* C18: a successful process returns a result that agrees with the state it
\* leaves behind: emails is lastExtracted, categorized is lastCategorized,
\* total_emails is the length of emails, and statistics gives, for the
\* labels of categorized in the same order, the length of each list.
C18_ProcessResult ==
    (ret.op = "process" /\ ret.status = "ok")
    => /\ ret.list = emails
       /\ ret.map = categorized
       /\ ret.total = Len(ret.list)
       /\ Len(ret.stats) = Len(ret.map)
       /\ \A i \in 1..Len(ret.map) :
             /\ ret.stats[i].label = ret.map[i].label
             /\ ret.stats[i].count = Len(ret.map[i].emails)

\* a successful process by domain of a file with two addresses of two
\* domains, on an engine that held other addresses before
C18_Witness ==
    /\ ret.op = "process"
    /\ ret.status = "ok"
    /\ ret.total = 2
    /\ Len(ret.map) = 2
    /\ ret.map[1].label # ret.map[2].label
    /\ Cardinality(cache) > 2

\* C19: in case-insensitive mode every returned address is lower-cased and
\* matches that differ only in letter case give one entry; in case-sensitive
\* mode the addresses are returned as written and only equal matches are
\* merged, so matches that differ in letter case give distinct entries.
C19_CaseHandling ==
    xOut.op = "extract_from_text"
    => /\ ~ case_sensitive
          => /\ \A i \in 1..Len(xOut.emails) :
                   xOut.emails[i] = StrLower(xOut.emails[i])
             /\ SetOf(xOut.emails)
                  = { StrLower(e) : e \in SetOf(FindAll(xText)) }
             /\ Len(xOut.emails)
                  = Cardinality({ StrLower(e) : e \in SetOf(FindAll(xText)) })
       /\ case_sensitive
          => /\ SetOf(xOut.emails) = SetOf(FindAll(xText))
             /\ Len(xOut.emails) = Cardinality(SetOf(FindAll(xText)))

\* the text 'A@B.CC a@b.cc ' in case-insensitive mode: one entry, lower-cased
C19_Witness ==
    /\ xOut.op = "extract_from_text"
    /\ ~ case_sensitive
    /\ xText = <<"A","@","B",".","C","C"," ","a","@","b",".","c","c"," ">>
    /\ xOut.emails = << <<"a","@","b",".","c","c">> >>

\* the same text in case-sensitive mode: two entries
C19_WitnessSensitive ==
    /\ xOut.op = "extract_from_text"
    /\ case_sensitive
    /\ xText = <<"A","@","B",".","C","C"," ","a","@","b",".","c","c"," ">>
    /\ Len(xOut.emails) = 2

\* the strings that a pattern matches as a whole ("." stands for any
\* character, the addresses hold no line break)
InLanguage(pattern, s) ==
    \/ /\ pattern = PatNumeric
       /\ \E p \in 1..Len(s) : \E q \in (p + 1)..Len(s) :
             s[p] \in Digit /\ s[q] = "@"
    \/ /\ pattern = PatAdmin
       /\ Len(s) >= 6
       /\ SubSeq(s, 1, 5) = <<"a","d","m","i","n">>
       /\ \E q \in 6..Len(s) : s[q] = "@"
    \/ /\ pattern = PatSales
       /\ s = <<"s","a","l","e","s">>

\* some prefix of the address is matched by the pattern as a whole
PrefixMatches(pattern, e) ==
    \E n \in 0..Len(e) : InLanguage(pattern, SubSeq(e, 1, n))

\* C20: categorize_by_pattern is first-match-wins: an address goes to the
\* category of the first pattern, in mapping order, that matches a prefix of
\* the address, and to uncategorized when no pattern does.
C20_PatternFirstMatch ==
    (cOut.method = "pattern" /\ cOut.status = "ok")
    => \A k \in 1..Len(cIn) :
          LET hits == { i \in 1..Len(cOut.cfg) :
                          PrefixMatches(cOut.cfg[i].pattern, cIn[k]) }
          IN  /\ hits = {} => LabelsOf(cOut.map, cIn[k]) = { L_uncategorized }
              /\ hits # {} =>
                   \E i \in hits :
                      /\ \A j \in hits : i <= j
                      /\ LabelsOf(cOut.map, cIn[k]) = { cOut.cfg[i].label }

\* the patterns sales, admin, numeric on a list with 'sales1@co.com', which
\* the first and the third pattern match, 'presales1@co.com', where 'sales'
\* is not at the start, and an address that no pattern matches
C20_Witness ==
    /\ cOut.method = "pattern" /\ cOut.status = "ok"
    /\ cOut.cfg[1].pattern = PatSales
    /\ Len(cOut.cfg) = 3
    /\ cIn = << A_presales1, A_sales1, A_info >>
    /\ PrefixMatches(PatSales, A_sales1) /\ PrefixMatches(PatNumeric, A_sales1)
    /\ A_sales1 \in SetOf(Get(cOut.map, L_sales))
    /\ A_presales1 \in SetOf(Get(cOut.map, L_numeric))
    /\ A_info \in SetOf(Get(cOut.map, L_uncategorized))

(***************************************************************************)
(* Specification of the command line: one run of main                      *)
(***************************************************************************)
\* the parsed arguments: exactly one of --text, --file, --directory with its
\* value, the toggles, the --categorize and --format choices, and --output,
\* which is absent, a path that can be written ("ok") or one that cannot
\* ("denied")
CliSources ==
    { [ source_type |-> "text", source |-> t ] : t \in { T_contact, T_none, << >> } }
    \cup { [ source_type |-> "file", source |-> p ] :
              p \in { P_notes, P_gone, P_locked } }
    \cup { [ source_type |-> "directory", source |-> p ] : p \in { P_docs, P_notes } }

CliArgs ==
    { [ source_type |-> s.source_type, source |-> s.source,
        recursive |-> rec, case_sensitive |-> cs, categorize |-> cat,
        output |-> out, format |-> fmt, grouped |-> grp, stats |-> st,
        verbose |-> vb, quiet |-> qt ] :
        s \in CliSources, rec \in BOOLEAN, cs \in BOOLEAN,
        cat \in { "domain", "type", "keywords", "none" },
        out \in { "absent", "ok", "denied" },
        fmt \in { "json", "csv", "txt" },
        grp \in BOOLEAN, st \in BOOLEAN, vb \in BOOLEAN, qt \in BOOLEAN }

\* the outcome of a run: the exit code, the exception that ended the try
\* block and the step that raised it, the engine's fields, what was printed
\* to stdout, the messages on stderr and the output file
CliResult(exit, raised, step, ems, cat, extracted, stdout, stderr, file) ==
    [ exit |-> exit, raised |-> raised, step |-> step, emails |-> ems,
      categorized |-> cat, cache |-> extracted, stdout |-> stdout,
      stderr |-> stderr, file |-> file ]

\* a message printed to stderr when the condition holds
Msg(cond, m) == IF cond THEN << m >> ELSE << >>

\* the two except clauses: the message, and the traceback of an exception
\* other than FileNotFoundError under --verbose
CliExcept(a, raised, step, ems, cat, extracted, stderr) ==
    CliResult(1, raised, step, ems, cat, extracted, << >>,
              stderr \o << "Error" >>
              \o Msg(a.verbose /\ raised # "FileNotFoundError", "traceback"),
              NoFile)

\* "Print statistics if requested" and return 0
CliStatistics(a, ems, cat, extracted, stdout, stderr, file, s) ==
    CliResult(0, "none", "done", ems, cat, extracted, stdout,
              stderr
              \o ( IF a.stats /\ ~ a.quiet
                   THEN << "STATISTICS", "Total emails" >>
                        \o Msg(s.statistics # << >>, "By category")
                   ELSE << >> ),
              file)

\* the file that the export of the chosen format writes
CliExport(a, ems, cat) ==
    CASE a.format = "json" ->
            DataFile("json", export_to_json(ems, cat, a.stats))
      [] a.format = "csv" ->
            TextFile("csv", export_to_csv(ems, cat, a.categorize # "none"))
      [] a.format = "txt" ->
            TextFile("txt", export_to_txt(ems, cat, a.grouped))

\* "Output results"
CliOutput(a, ems, cat, extracted, stderr) ==
    IF a.output = "denied"
    THEN CliExcept(a, "OSError", "export", ems, cat, extracted, stderr)
    ELSE IF a.output = "ok"
    THEN CliStatistics(a, ems, cat, extracted, << >>,
                       stderr \o Msg(~ a.quiet, "Results saved to"),
                       CliExport(a, ems, cat), get_summary(ems, cat))
    ELSE CliStatistics(a, ems, cat, extracted,
                       IF a.categorize # "none" THEN TxtGroups(cat, 1)
                       ELSE TxtLines(ems, 1),
                       stderr, NoFile, get_summary(ems, cat))

\* "Categorize if requested": c is the outcome of engine.categorize
CliCategorized(a, ems, extracted, stderr, c) ==
    IF c.status # "ok"
    THEN CliExcept(a, c.status, "categorize", ems, c.categorized, extracted,
                   stderr)
    ELSE CliOutput(a, ems, c.categorized, extracted, stderr)

\* the run after engine.extract, whose outcome is r
CliExtracted(a, r, stderr) ==
    IF r.status # "ok"
    THEN CliExcept(a, r.status, "extract", << >>, << >>, r.cache, stderr)
    ELSE IF r.emails = << >>
    THEN CliResult(0, "none", "no emails", << >>, << >>, r.cache, << >>,
                   stderr \o Msg(~ a.quiet, "No emails found."), NoFile)
    ELSE IF a.categorize # "none"
    THEN CliCategorized(a, r.emails, r.cache,
                        stderr \o Msg(a.verbose, "Found")
                               \o Msg(a.verbose, "Categorizing"),
                        engine_categorize(r.emails, << >>, a.categorize,
                                          NoKwargs))
    ELSE CliOutput(a, r.emails, << >>, r.cache,
                   stderr \o Msg(a.verbose, "Found"))

\* main: parser.error ends the run with code 2 before the engine exists; a
\* source that is the empty string is falsy, so that no branch assigns
\* source and the call of engine.extract raises UnboundLocalError; the
\* --recursive toggle is used for the verbose message only
main(a, listing) ==
    IF a.recursive /\ a.source_type # "directory"
    THEN CliResult(2, "SystemExit", "parse", << >>, << >>, {}, << >>,
                   << "usage" >>, NoFile)
    ELSE IF a.source = << >>
    THEN CliExcept(a, "UnboundLocalError", "source", << >>, << >>, {}, << >>)
    ELSE CliExtracted(a,
             engine_extract(StrSource(a.source), a.source_type, listing,
                            a.case_sensitive, {}),
             Msg(a.verbose, "Extracting emails"))

InitCli ==
    /\ args \in CliArgs
    /\ cli = NoRun
    /\ EngineIdle
    /\ ExtractorIdle
    /\ CatIdle
    /\ FilterIdle

Main ==
    /\ cli = NoRun
    /\ \E listing \in Listings(args.source) :
       \E r \in { main(args, listing) } :
          /\ cli' = [ exit |-> r.exit, raised |-> r.raised, step |-> r.step,
                      stdout |-> r.stdout, stderr |-> r.stderr,
                      file |-> r.file ]
          /\ case_sensitive' = IF r.step = "parse" THEN case_sensitive
                               ELSE args.case_sensitive
          /\ emails' = r.emails
          /\ categorized' = r.categorized
          /\ cache' = r.cache
    /\ UNCHANGED << ret, cIn, cOut, xText, xOut, xPaths, xLog, fIn, fOut, args >>

NextCli == Main

SpecCli == InitCli /\ [][NextCli]_vars

(***************************************************************************)
(* Properties of the command line                                          *)
(***************************************************************************)
\* a run that got past the validation of the arguments
CliRan == cli # NoRun /\ cli.step # "parse"

\* the addresses that the text of a readable file holds
FileYield(path) == SetOf(Normalized(FsText(path), args.case_sensitive))

\* the source holds no address: a text without one, or a readable file
\* without one
SourceYieldsNothing ==
    \/ args.source_type = "text" /\ FindAll(args.source) = << >>
    \/ args.source_type = "file" /\ FsKind(args.source) = "file"
         /\ FindAll(FsText(args.source)) = << >>

\* C21: the command line exits with code 0 on every successful run, among
\* them every run whose source yields no address, and with code 1 exactly
\* when extraction, reading or categorization raises an error.
C21_ExitCodes ==
    CliRan =>
       /\ cli.exit \in { 0, 1 }
       /\ cli.exit = 1 <=> cli.step \in { "extract", "categorize" }
       /\ SourceYieldsNothing => cli.exit = 0

\* the files that lie in the subdirectories of a directory
FilesBelow(dir) ==
    UNION { { f \in FsEntries(d) : FsKind(f) = "file" } :
              d \in { e \in FsEntries(dir) : FsKind(e) = "dir" } }

\* C22: with --directory D and --recursive the addresses of the files in the
\* subdirectories of D are part of the extracted result.
C22_Recursive ==
    ( /\ CliRan
      /\ args.source_type = "directory"
      /\ args.recursive
      /\ FsKind(args.source) = "dir" )
    => \A f \in FilesBelow(args.source) : FileYield(f) \subseteq SetOf(emails)

\* C23: --file F --categorize keywords --output O --format txt on a file
\* with at least one address categorizes the addresses, writes the output
\* file and exits with code 0.
C23_KeywordsExample ==
    ( /\ CliRan
      /\ args.source_type = "file"
      /\ FsKind(args.source) = "file"
      /\ FindAll(FsText(args.source)) # << >>
      /\ args.categorize = "keywords"
      /\ args.output = "ok"
      /\ args.format = "txt" )
    => /\ cli.exit = 0
       /\ cli.file.kind = "txt"
       /\ categorized # << >>

(***************************************************************************)
(* Specification of validate_email: the predicate applied to one string    *)
(***************************************************************************)
\* EMAIL_PATTERN.fullmatch(email): the whole string is a local part, "@", a
\* domain, "." and a last part of at least two characters of [A-Z|a-z], and
\* both ends of the string are word boundaries
validate_email(email) ==
    /\ email # << >>
    /\ IsWordBoundary(email, 1)
    /\ IsWordBoundary(email, Len(email) + 1)
    /\ \E a \in 2..Len(email) : \E b \in (a + 2)..(Len(email) - 2) :
          /\ email[a] = "@"
          /\ email[b] = "."
          /\ \A i \in 1..(a - 1) : email[i] \in LocalCh
          /\ \A i \in (a + 1)..(b - 1) : email[i] \in DomCh
          /\ \A i \in (b + 1)..Len(email) : email[i] \in TldCh

\* the pieces that the validated strings are concatenated from
ValidateFrags == { <<"a","@","b">>, <<".">>, <<"c","c">>, <<"c","|","d">>,
                   <<"+">>, <<" ">>, <<"x">>, <<"@">> }

ValidateTexts == Concats(ValidateFrags, MaxFrags)

InitValidate ==
    /\ xText \in ValidateTexts
    /\ xOut = [ op |-> "none" ]
    /\ xPaths = << >>
    /\ xLog = {}
    /\ EngineIdle
    /\ CatIdle
    /\ FilterIdle
    /\ CliIdle

ValidateEmail ==
    /\ xOut.op = "none"
    /\ xOut' = [ op |-> "validate_email", valid |-> validate_email(xText) ]
    /\ UNCHANGED << case_sensitive, emails, categorized, cache, ret, cIn, cOut,
                    xText, xPaths, xLog, fIn, fOut, args, cli >>

NextValidate == ValidateEmail

SpecValidate == InitValidate /\ [][NextValidate]_vars

\* the address pattern as the specification states it, with letters only in
\* the last part: [A-Za-z0-9._%+-]+@[A-Za-z0-9.-]+\.[A-Za-z]{2,} between
\* word boundaries
IsAddress(s) ==
    /\ s # << >>
    /\ s[1] \in WordCh
    /\ \E a \in 2..Len(s) : \E b \in (a + 2)..(Len(s) - 2) :
          /\ s[a] = "@"
          /\ s[b] = "."
          /\ \A i \in 1..(a - 1) : s[i] \in LocalCh
          /\ \A i \in (a + 1)..(b - 1) : s[i] \in DomCh
          /\ \A i \in (b + 1)..Len(s) : s[i] \in Upper \cup Lower

\* C24: validate_email(s) is true exactly when the whole string s is an
\* address: a local part, one "@", a domain, a dot and a last part of at
\* least two letters; every other string is rejected.
C24_Validate ==
    xOut.op = "validate_email" => (xOut.valid <=> IsAddress(xText))

\* C25: categorize_by_type assigns educational to an address exactly when
\* its domain is not a free provider and ends with one of the educational
\* suffixes taken with their leading dot (.edu, .ac.uk, .edu.au, .edu.cn,
\* .ac.in); mail.xedu is not educational.
C25_Educational ==
    cOut.method = "type"
    => \A k \in 1..Len(cIn) :
          LET d == extract_domain(cIn[k])
          IN  (cIn[k] \in SetOf(Get(cOut.map, L_educational)))
              <=> ( /\ Truthy(d)
                    /\ d.val \notin FREE_EMAIL_DOMAINS
                    /\ HasDottedEduSuffix(d.val) )

(***************************************************************************)
(* Invariants of the engine                                                *)
(***************************************************************************)
\* every address of a category list of the map is an element of the list
CategorizationOf(m, list) == SetOf(Flatten(m)) \subseteq SetOf(list)

\* C26 as stated: lastCategorized is always empty or a categorization of the
\* current lastExtracted.
C26_Original == categorized = << >> \/ CategorizationOf(categorized, emails)

\* C26: an operation that changes lastCategorized leaves it empty or a
\* categorization of the lastExtracted of that moment; extract replaces
\* lastExtracted only, so that a categorization of an earlier list may stay.
C26_CategorizedFromExtracted ==
    [][ categorized' # categorized
        => \/ categorized' = << >>
           \/ CategorizationOf(categorized', emails') ]_vars

\* a second list was extracted and categorized: the map categorizes the
\* current list although the session has seen other addresses
C26_Witness ==
    /\ ret.op = "categorize" /\ ret.status = "ok"
    /\ categorized # << >>
    /\ CategorizationOf(categorized, emails)
    /\ cache \ SetOf(emails) # {}

\* the distinct addresses of a text in the order of their first occurrence
Extracted(text) == Dedup(Normalized(text, case_sensitive), 1, {}, << >>)

\* lastExtracted after a failed call of process: the extract step has
\* replaced it when the source could be read
AfterFailedProcess(c) ==
    IF c.source_type = "text" THEN Extracted(c.source.str)
    ELSE IF c.source_type = "file" /\ FsKind(c.source.str) = "file"
    THEN Extracted(FsText(c.source.str))
    ELSE emails

\* C27 as stated: a failing process leaves lastExtracted and lastCategorized
\* as they were.
C27_Original ==
    [][ (ret'.op = "process" /\ ret'.status # "ok")
        => emails' = emails /\ categorized' = categorized ]_vars

\* C27: a failing process leaves lastCategorized as it was; lastExtracted
\* keeps its value when the extract step fails and is replaced by the list
\* extracted from the source when the categorize step fails.
C27_ProcessFailure ==
    [][ (ret'.op = "process" /\ ret'.status # "ok")
        => \A c \in ProcessCalls :
              Process(c.source, c.source_type, c.method, NoKwargs)
              => /\ categorized' = categorized
                 /\ emails' = AfterFailedProcess(c) ]_vars

\* process failed with the state error on a source without address after an
\* earlier categorization: the map is kept, the list was replaced
C27_Witness ==
    /\ ret.op = "process" /\ ret.status = "InvalidState"
    /\ emails = << >>
    /\ categorized # << >>

(***************************************************************************)
(* The category other of categorize_by_type                                *)
(***************************************************************************)
\* the four categories of an address with a dotted domain
DottedCategories == { L_free, L_educational, L_government, L_business }

C28_WitnessExtracted ==
    /\ cOut.method = "type"
    /\ Len(cIn) = 3 /\ Cardinality(SetOf(cIn)) = 3
    /\ \A k \in 1..Len(cIn) : validate_email(cIn[k])
    /\ Get(cOut.map, L_other) = << >>

\* the labels of the list are pairwise distinct
DuplicateFree(l) == \A i, j \in 1..Len(l) : i # j => l[i] # l[j]

\* C29: for a duplicate-free label list the results of filter_by_category
\* and of exclude_categories on the same map hold together, as a multiset,
\* exactly the addresses of all category lists of the map.
C29_Complementary ==
    [][ ( /\ DuplicateFree(fIn.categories)
          /\ fOut.op # "none"
          /\ fOut'.op # "none"
          /\ fOut'.op # fOut.op )
        => \A x \in SetOf(Flatten(fIn.map)) \cup SetOf(fOut.list)
                      \cup SetOf(fOut'.list) :
              Count(fOut.list, x) + Count(fOut'.list, x)
                  = Count(Flatten(fIn.map), x) ]_vars

\* info@gmail.com is in the lists of free and of business; business and a
\* label that the map lacks are requested, and exclude_categories returns
\* the copy of free only
C29_Witness ==
    /\ fOut.op = "exclude_categories"
    /\ fIn.categories = << L_business, L_nolabel >>
    /\ fIn.map = << [ label |-> L_free, emails |-> << A_info >> ],
                    [ label |-> L_business, emails |-> << A_sales, A_info >> ] >>
    /\ fOut.list = << A_info >>
    /\ filter_by_category(fIn.map, fIn.categories) = << A_sales, A_info >>

\* C30: after any sequence of Engine operations every address of
\* lastExtracted is in the extractor's session cache, and no operation other
\* than reset removes an address from the cache.
C30_CacheCoversState ==
    [][ /\ SetOf(emails) \subseteq cache
        /\ SetOf(emails') \subseteq cache'
        /\ ret'.op # "reset" => cache \subseteq cache' ]_vars

\* text, file and directory have been extracted since the last reset: the
\* cache holds the addresses of the current list and older ones
C30_Witness ==
    /\ ret.op = "extract" /\ ret.status = "ok"
    /\ emails # << >>
    /\ SetOf(emails) \subseteq cache
    /\ cache \ SetOf(emails) # {}
    /\ Cardinality(cache) >= 5

====
